---------------------------- MODULE Spec2Model ----------------------------
(***************************************************************************)
(* A model of the mortgage payment calculation engine of                   *)
(* src/src/react_agent/custom_get_rate_tool_v3.py (the get_rate tool that  *)
(* graph.py binds to the agent).                                           *)
(*                                                                         *)
(* One call of get_rate is a sequential process: pc names the statement    *)
(* group of get_rate that runs next, the other variables are its           *)
(* parameters and locals.  A parameter is drawn from its input set by the  *)
(* first step that reads it.                                               *)
(*                                                                         *)
(* Units.  Python computes in binary floating point; the model computes    *)
(* exactly, in integers:                                                   *)
(*   money             cents                      (500000.0  -> 50000000)  *)
(*   shares, LTV, MI   1/10000 (basis points)     (0.965     -> 9650)      *)
(*   rounded LTV/CLTV  1/1000 (per mille)         (0.965     -> 965)       *)
(*   interest rates    1/100 of a percent         (7.5       -> 750)       *)
(* A value the code reads as a number of either kind (the result of        *)
(* parse_currency_amount) is a decimal fraction [n, d] = n / d.            *)
(***************************************************************************)
EXTENDS Integers, Sequences, FiniteSets, TLC

(***************************************************************************)
(* Optional values (Python None or a number).                              *)
(***************************************************************************)
None == [set |-> FALSE, v |-> 0]
Some(x) == [set |-> TRUE, v |-> x]

Dollars(x) == x * 100

Max(a, b) == IF a >= b THEN a ELSE b

(* amount * share, share in basis points; exact on the model's inputs,     *)
(* split so that no intermediate product leaves 32 bits                    *)
MulBp(amount, bp) ==
    LET a == IF amount < 0 THEN -amount ELSE amount
        p == (a \div 10000) * bp + ((a % 10000) * bp) \div 10000
    IN  IF amount < 0 THEN -p ELSE p

(***************************************************************************)
(* Module-level tables.                                                    *)
(***************************************************************************)
CONVENTIONAL_LOAN_LIMITS ==
    << Dollars(806500), Dollars(1032650), Dollars(1248150), Dollars(1551250) >>
FHA_LOAN_LIMITS ==
    << Dollars(629050), Dollars(805300), Dollars(973400), Dollars(1209750) >>

LoanTypes == {"conventional", "fha", "va", "jumbo"}

(* a table that hands the FHA limits to every loan type *)
LOAN_LIMITS_FhaForAll(t) == FHA_LOAN_LIMITS

(* LOAN_LIMITS[t] for the two types that have a finite list; "jumbo" and   *)
(* "va" hold float('inf') four times and are never indexed by get_rate     *)
LOAN_LIMITS(t) ==
    IF t = "conventional" THEN CONVENTIONAL_LOAN_LIMITS ELSE FHA_LOAN_LIMITS

(* Python list indexing lst[i] of a list of four: i in -4..3 is an         *)
(* element (a negative index counts from the end), anything else raises    *)
(* IndexError                                                              *)
IndexOk(i) == i \in -4..3

(* a lookup that ignores the unit count *)
ListGet_OneUnit(lst, i) == lst[1]

ListGet(lst, i) == IF i >= 0 THEN lst[i + 1] ELSE lst[Len(lst) + i + 1]

(***************************************************************************)
(* Strings are sequences of one-character strings.                         *)
(***************************************************************************)
DIGITS == << "0", "1", "2", "3", "4", "5", "6", "7", "8", "9" >>
UPPER == << "A", "B", "C", "D", "E", "F", "G", "H", "I", "J", "K", "L", "M",
            "N", "O", "P", "Q", "R", "S", "T", "U", "V", "W", "X", "Y", "Z" >>
LOWER == << "a", "b", "c", "d", "e", "f", "g", "h", "i", "j", "k", "l", "m",
            "n", "o", "p", "q", "r", "s", "t", "u", "v", "w", "x", "y", "z" >>

IsDigit(c) == \E i \in 1..10 : DIGITS[i] = c
DigitVal(c) == (CHOOSE i \in 1..10 : DIGITS[i] = c) - 1
IsUpper(c) == \E i \in 1..26 : UPPER[i] = c
IsLower(c) == \E i \in 1..26 : LOWER[i] = c

(* str.lower() *)
LowerChar(c) == IF IsUpper(c) THEN LOWER[CHOOSE i \in 1..26 : UPPER[i] = c] ELSE c
StrLower(s) == [i \in 1..Len(s) |-> LowerChar(s[i])]

(* str.strip(): the only whitespace of the model's alphabet is the blank *)
RECURSIVE LStrip(_)
LStrip(s) == IF s # << >> /\ Head(s) = " " THEN LStrip(Tail(s)) ELSE s
RECURSIVE RStrip(_)
RStrip(s) ==
    IF s # << >> /\ s[Len(s)] = " " THEN RStrip(SubSeq(s, 1, Len(s) - 1)) ELSE s
StrStrip(s) == RStrip(LStrip(s))

Contains(s, c) == \E i \in 1..Len(s) : s[i] = c

(* \w and [\d.] of Python's re *)
IsWordChar(c) == IsDigit(c) \/ IsLower(c) \/ IsUpper(c) \/ c = "_"
IsNumChar(c) == IsDigit(c) \/ c = "."

(* the positions of s whose character is of one class *)
NumPositions(s) == {k \in 1..Len(s) : IsNumChar(s[k])}
DigitPositions(s) == {k \in 1..Len(s) : IsDigit(s[k])}
WordPositions(s) == {k \in 1..Len(s) : IsWordChar(s[k])}
OtherPositions(s) == {k \in 1..Len(s) : ~IsWordChar(s[k])}

(* the end (exclusive) of the maximal run of positions of the set ps that  *)
(* starts at position i                                                    *)
RunEnd(s, i, ps) ==
    CHOOSE j \in i..(Len(s) + 1) :
        /\ \A k \in i..(j - 1) : k \in ps
        /\ (j = Len(s) + 1 \/ j \notin ps)

(* re.findall(r'[\d.]+', s)[0], or the empty string when nothing matches *)
FirstNumRun(s) ==
    LET starts == {i \in 1..Len(s) : IsNumChar(s[i])}
    IN  IF starts = {} THEN << >>
        ELSE LET i == CHOOSE x \in starts : \A y \in starts : x <= y
             IN  SubSeq(s, i, RunEnd(s, i, NumPositions(s)) - 1)

RECURSIVE DigitsVal(_)
DigitsVal(ds) ==
    IF ds = << >> THEN 0
    ELSE DigitsVal(SubSeq(ds, 1, Len(ds) - 1)) * 10 + DigitVal(ds[Len(ds)])

RECURSIVE Pow10(_)
Pow10(k) == IF k = 0 THEN 1 ELSE 10 * Pow10(k - 1)

(* float(run) for a run of digits and dots: a ValueError unless the run    *)
(* holds at most one dot and at least one digit                            *)
FloatOk(run) ==
    /\ Cardinality({i \in 1..Len(run) : run[i] = "."}) <= 1
    /\ \E i \in 1..Len(run) : IsDigit(run[i])
FloatOf(run) ==
    LET dots == {i \in 1..Len(run) : run[i] = "."}
        frac == IF dots = {} THEN 0 ELSE Len(run) - (CHOOSE i \in dots : TRUE)
    IN  [n |-> DigitsVal(SelectSeq(run, IsDigit)), d |-> Pow10(frac)]

(* maximal runs of word and of non-word characters, in order *)
RECURSIVE Runs(_)
Runs(s) ==
    IF s = << >> THEN << >>
    ELSE LET j == IF IsWordChar(s[1]) THEN RunEnd(s, 1, WordPositions(s))
                  ELSE RunEnd(s, 1, OtherPositions(s))
         IN  << SubSeq(s, 1, j - 1) >> \o Runs(SubSeq(s, j, Len(s)))

RECURSIVE Concat(_)
Concat(ss) == IF ss = << >> THEN << >> ELSE Head(ss) \o Concat(Tail(ss))

(* re.search(r'\b(w1|w2|...)\b', s) and re.sub(r'\b(w1|w2|...)\b', '', s) *)
(* for words made of word characters: a match is a maximal word run        *)
InWords(runs, W) == \E i \in 1..Len(runs) : runs[i] \in W
HasWord(s, W) == InWords(Runs(s), W)
RemoveWords(s, W) == Concat(SelectSeq(Runs(s), LAMBDA r : r \notin W))

CurrencyWords ==
    { << "d", "o", "l", "l", "a", "r" >>, << "d", "o", "l", "l", "a", "r", "s" >>,
      << "b", "u", "c", "k" >>, << "b", "u", "c", "k", "s" >>,
      << "d", "o", "w", "n" >>, << "p", "a", "y", "m", "e", "n", "t" >> }
ThousandWords ==
    { << "k" >>, << "t", "h", "o", "u", "s", "a", "n", "d" >>,
      << "g", "r", "a", "n", "d" >> }
MillionWords ==
    { << "m" >>, << "m", "i", "l", "l", "i", "o", "n" >>, << "m", "i", "l" >> }

(* re.search(r'(\d+(?:\.\d+)?)c\b', s) tried at position i: the matched    *)
(* group as [ok, g]                                                        *)
GluedAt(s, i, c) ==
    IF ~IsDigit(s[i]) THEN [ok |-> FALSE, g |-> << >>]
    ELSE LET j == RunEnd(s, i, DigitPositions(s))
             withFrac == j + 1 <= Len(s) /\ s[j] = "." /\ IsDigit(s[j + 1])
             e == IF withFrac THEN RunEnd(s, j + 1, DigitPositions(s)) ELSE j
         IN  [ok |-> /\ e <= Len(s)
                     /\ s[e] = c
                     /\ (e = Len(s) \/ ~IsWordChar(s[e + 1])),
              g |-> SubSeq(s, i, e - 1)]
GluedMatch(s, c) ==
    LET hits == {i \in 1..Len(s) : GluedAt(s, i, c).ok}
    IN  IF hits = {} THEN [ok |-> FALSE, g |-> << >>]
        ELSE GluedAt(s, CHOOSE x \in hits : \A y \in hits : x <= y, c)

(***************************************************************************)
(* parse_currency_amount.  An argument is [kind, n, d, s]: kind "none"     *)
(* (None), "num" (the int or float n/d), "str" (the string s) or "other"   *)
(* (any other object).  The result is [ok, n, d]: the float n/d, or        *)
(* ok = FALSE for a ValueError.                                            *)
(***************************************************************************)
ArgNone == [kind |-> "none", n |-> 0, d |-> 1, s |-> << >>]
ArgNum(n, d) == [kind |-> "num", n |-> n, d |-> d, s |-> << >>]
ArgStr(s) == [kind |-> "str", n |-> 0, d |-> 1, s |-> s]

ParseOk(n, d) == [ok |-> TRUE, n |-> n, d |-> d]
ParseError == [ok |-> FALSE, n |-> 0, d |-> 1]

(* n/d times m over e *)
Scaled(f, m, e) == ParseOk(f.n * m, f.d * e)

(* lines 53-56: value holds "%"; num is re.findall(r'[\d.]+', value)[0]   *)
(* or empty ('%' with no number: the function returns 0.0)                 *)
ParsePercent(num) ==
    IF num = << >> THEN ParseOk(0, 100)
    ELSE IF FloatOk(num) THEN Scaled(FloatOf(num), 1, 100)
    ELSE ParseError

(* lines 80-85, after the two glued-suffix searches of lines 71-78 *)
ParseMatches(k_match, m_match, numbers, multiplier) ==
    IF k_match.ok THEN Scaled(FloatOf(k_match.g), 1000, 1)
    ELSE IF m_match.ok THEN Scaled(FloatOf(m_match.g), 1000000, 1)
    ELSE IF numbers = << >> \/ ~FloatOk(numbers) THEN ParseError
    ELSE Scaled(FloatOf(numbers), multiplier, 1)

(* lines 71-85 on the cleaned string *)
ParseNumber(value, multiplier) ==
    ParseMatches(GluedMatch(value, "k"), GluedMatch(value, "m"),
                 FirstNumRun(StrStrip(value)), multiplier)

(* lines 62-69: the thousand words are looked for first, the million words *)
(* only when none is found                                                 *)
ParseMultiplier(value, isK, isM) ==
    IF isK THEN ParseNumber(RemoveWords(value, ThousandWords), 1000)
    ELSE IF isM THEN ParseNumber(RemoveWords(value, MillionWords), 1000000)
    ELSE ParseNumber(value, 1)

(* lines 58-69 *)
ParseWords(value) ==
    ParseMultiplier(value, HasWord(value, ThousandWords), HasWord(value, MillionWords))

(* a parser without the percent rule                                       *)
ParseLowered_NoPercent(value) ==
    ParseWords(RemoveWords(SelectSeq(value, LAMBDA c : c \notin {"$", ","}),
                           CurrencyWords))

(* lines 53-85 on the stripped, lower-cased string *)
ParseLowered(value) ==
    IF Contains(value, "%") THEN ParsePercent(FirstNumRun(value))
    ELSE ParseWords(RemoveWords(SelectSeq(value, LAMBDA c : c \notin {"$", ","}),
                                CurrencyWords))

ParseString(raw) == ParseLowered(StrLower(StrStrip(raw)))

parse_currency_amount(value) ==
    IF value.kind = "num" THEN ParseOk(value.n, value.d)
    ELSE IF value.kind = "str" THEN ParseString(value.s)
    ELSE ParseError

(* a parsed float read as money (cents) and as a share (basis points) *)
AsCents(x) == (x.n * 100) \div x.d
AsBp(x) == (x.n * 10000) \div x.d


(***************************************************************************)
(* round(num / den, 3) for den > 0, in per mille.  Python rounds the       *)
(* double nearest to num/den to the nearest multiple of 0.001; when        *)
(* num/den lies exactly half way, (2k+1)/2000, the side is the side on     *)
(* which that double lies (to even when it is exact): TieRoundsUp lists    *)
(* the k below 1200 for which round((2k+1)/2000, 3) is (k+1)/1000.         *)
(***************************************************************************)
TieRoundsUp ==
    {
      0, 1, 2, 3, 8, 10, 12, 14, 16, 17, 20, 23, 24, 27, 28, 31,
      32, 33, 34, 39, 40, 41, 42, 47, 48, 49, 50, 55, 56, 57, 58, 63,
      64, 65, 66, 67, 68, 69, 78, 79, 80, 81, 82, 83, 84, 85, 94, 95,
      96, 97, 98, 99, 100, 101, 109, 110, 111, 112, 113, 114, 115, 116, 125, 126,
      127, 128, 129, 130, 131, 132, 133, 134, 135, 136, 137, 138, 139, 140, 156, 157,
      158, 159, 160, 161, 162, 163, 164, 165, 166, 167, 168, 169, 170, 171, 187, 188,
      189, 190, 191, 192, 193, 194, 195, 196, 197, 198, 199, 200, 201, 202, 219, 220,
      221, 222, 223, 224, 225, 226, 227, 228, 229, 230, 231, 232, 233, 250, 251, 252,
      253, 254, 255, 256, 257, 258, 259, 260, 261, 262, 263, 264, 265, 266, 267, 268,
      269, 270, 271, 272, 273, 274, 275, 276, 277, 278, 279, 280, 313, 314, 315, 316,
      317, 318, 319, 320, 321, 322, 323, 324, 325, 326, 327, 328, 329, 330, 331, 332,
      333, 334, 335, 336, 337, 338, 339, 340, 341, 342, 343, 375, 376, 377, 378, 379,
      380, 381, 382, 383, 384, 385, 386, 387, 388, 389, 390, 391, 392, 393, 394, 395,
      396, 397, 398, 399, 400, 401, 402, 403, 404, 405, 437, 438, 439, 440, 441, 442,
      443, 444, 445, 446, 447, 448, 449, 450, 451, 452, 453, 454, 455, 456, 457, 458,
      459, 460, 461, 462, 463, 464, 465, 466, 467, 468, 563, 564, 565, 566, 567, 568,
      569, 570, 571, 572, 573, 574, 575, 576, 577, 578, 579, 580, 581, 582, 583, 584,
      585, 586, 587, 588, 589, 590, 591, 592, 593, 594, 595, 596, 597, 598, 599, 600,
      601, 602, 603, 604, 605, 606, 607, 608, 609, 610, 611, 612, 613, 614, 615, 616,
      617, 618, 619, 620, 621, 622, 623, 624, 687, 688, 689, 690, 691, 692, 693, 694,
      695, 696, 697, 698, 699, 700, 701, 702, 703, 704, 705, 706, 707, 708, 709, 710,
      711, 712, 713, 714, 715, 716, 717, 718, 719, 720, 721, 722, 723, 724, 725, 726,
      727, 728, 729, 730, 731, 732, 733, 734, 735, 736, 737, 738, 739, 740, 741, 742,
      743, 744, 745, 746, 747, 748, 749, 813, 814, 815, 816, 817, 818, 819, 820, 821,
      822, 823, 824, 825, 826, 827, 828, 829, 830, 831, 832, 833, 834, 835, 836, 837,
      838, 839, 840, 841, 842, 843, 844, 845, 846, 847, 848, 849, 850, 851, 852, 853,
      854, 855, 856, 857, 858, 859, 860, 861, 862, 863, 864, 865, 866, 867, 868, 869,
      870, 871, 872, 873, 874, 937, 938, 939, 940, 941, 942, 943, 944, 945, 946, 947,
      948, 949, 950, 951, 952, 953, 954, 955, 956, 957, 958, 959, 960, 961, 962, 963,
      964, 965, 966, 967, 968, 969, 970, 971, 972, 973, 974, 975, 976, 977, 978, 979,
      980, 981, 982, 983, 984, 985, 986, 987, 988, 989, 990, 991, 992, 993, 994, 995,
      996, 997, 998, 999, 1001, 1003, 1005, 1007, 1009, 1011, 1013, 1015, 1017, 1019, 1021, 1023,
      1025, 1027, 1029, 1031, 1033, 1035, 1037, 1039, 1041, 1043, 1045, 1047, 1049, 1051, 1053, 1055,
      1057, 1059, 1061, 1064, 1066, 1068, 1070, 1072, 1074, 1076, 1078, 1080, 1082, 1084, 1086, 1088,
      1090, 1092, 1094, 1096, 1098, 1100, 1102, 1104, 1106, 1108, 1110, 1112, 1114, 1116, 1118, 1120,
      1122, 1124, 1126, 1128, 1130, 1132, 1134, 1136, 1138, 1140, 1142, 1144, 1146, 1148, 1150, 1152,
      1154, 1156, 1158, 1160, 1162, 1164, 1166, 1168, 1170, 1172, 1174, 1176, 1178, 1180, 1182, 1184,
      1186, 1187, 1189, 1191, 1193, 1195, 1197, 1199
    }

(* num / den for num >= 0, den > 0, to three decimals by long division:   *)
(* [k, r] with num / den = (k + r / den) / 1000 and 0 <= r < den           *)
LongDiv3(num, den) ==
    LET q  == num \div den
        r0 == num % den
        d1 == (r0 * 10) \div den
        r1 == (r0 * 10) % den
        d2 == (r1 * 10) \div den
        r2 == (r1 * 10) % den
        d3 == (r2 * 10) \div den
        r3 == (r2 * 10) % den
    IN  [k |-> q * 1000 + d1 * 100 + d2 * 10 + d3, r |-> r3]

Round3(num, den) ==
    LET a == LongDiv3(IF num < 0 THEN -num ELSE num, den)
        m == IF 2 * a.r > den THEN a.k + 1
             ELSE IF 2 * a.r < den THEN a.k
             ELSE IF a.k \in TieRoundsUp THEN a.k + 1 ELSE a.k
    IN  IF num < 0 THEN -m ELSE m

(***************************************************************************)
(* validate_normalize_loan_type.  The argument is [kind, v, s]: a LoanType *)
(* member v (kind "enum"), a string s (kind "str") or another object.      *)
(* The result is [ok, v]; ok = FALSE for the ValueError of LoanType(x).    *)
(***************************************************************************)
EnumArg(v) == [kind |-> "enum", v |-> v, s |-> << >>]
StrArg(s) == [kind |-> "str", v |-> "", s |-> s]
OtherArg == [kind |-> "other", v |-> "", s |-> << >>]

validate_normalize_loan_type(loan_type) ==
    IF loan_type.kind = "str"
    THEN LET loan_type_lower == StrStrip(StrLower(loan_type.s))
         IN  IF loan_type_lower \in { << "c", "o", "n", "v", "e", "n", "t", "i", "o", "n", "a", "l" >>,
                                      << "c", "o", "n", "v" >>,
                                      << "c", "o", "n", "f", "o", "r", "m", "i", "n", "g" >> }
             THEN [ok |-> TRUE, v |-> "conventional"]
             ELSE IF loan_type_lower \in { << "f", "h", "a" >> }
             THEN [ok |-> TRUE, v |-> "fha"]
             ELSE IF loan_type_lower \in { << "v", "a" >>, << "v", "e", "t", "e", "r", "a", "n" >>,
                                          << "v", "e", "t", "e", "r", "a", "n", "s" >> }
             THEN [ok |-> TRUE, v |-> "va"]
             ELSE IF loan_type_lower \in { << "j", "u", "m", "b", "o" >> }
             THEN [ok |-> TRUE, v |-> "jumbo"]
             (* LoanType(loan_type): every member's value is in the lists  *)
             (* above, so a string that reaches this line is no value      *)
             ELSE [ok |-> FALSE, v |-> ""]
    ELSE [ok |-> FALSE, v |-> ""]

(* get_rate's normalization of second_lien_type, for a string argument *)
NormalizeSecondLienType(s) ==
    LET second_lien_type_lower == StrStrip(StrLower(s))
    IN  IF second_lien_type_lower \in { << "f", "u", "l", "l", "y", "_", "a", "m", "o", "r", "t", "i", "z", "e", "d" >>,
                                        << "f", "u", "l", "l", "y", " ", "a", "m", "o", "r", "t", "i", "z", "e", "d" >>,
                                        << "a", "m", "o", "r", "t", "i", "z", "e", "d" >>,
                                        << "a", "m", "o", "r", "t", "i", "z", "i", "n", "g" >> }
        THEN [ok |-> TRUE, v |-> "fully_amortized"]
        ELSE IF second_lien_type_lower \in { << "i", "n", "t", "e", "r", "e", "s", "t", "_", "o", "n", "l", "y" >>,
                                             << "i", "n", "t", "e", "r", "e", "s", "t", " ", "o", "n", "l", "y" >>,
                                             << "i", "o" >> }
        THEN [ok |-> TRUE, v |-> "interest_only"]
        (* SecondLienType(second_lien_type_lower): both values are listed  *)
        (* above, so this is a ValueError                                  *)
        ELSE [ok |-> FALSE, v |-> ""]


(***************************************************************************)
(* The rate source.  What requests.get produces is either an exception     *)
(* (connection error, timeout) or a response with a status and a body;     *)
(* the body is the list of its <td class="large-text-center"> cells, a     *)
(* cell the list of the blank-separated parts of its text.  A part is      *)
(* [marker, pct, ok, rate]: the term marker it contains ("30" for          *)
(* "30-Yr", "15" for "15-Yr", "" for none), whether it ends with "%",      *)
(* and float(part.strip('%')): ok = FALSE for a ValueError, else the       *)
(* rate in hundredths of a percent.                                        *)
(***************************************************************************)
Word == [marker |-> "", pct |-> FALSE, ok |-> FALSE, rate |-> 0]
Marker(m) == [marker |-> m, pct |-> FALSE, ok |-> FALSE, rate |-> 0]
Pct(r) == [marker |-> "", pct |-> TRUE, ok |-> TRUE, rate |-> r]
BadPct == [marker |-> "", pct |-> TRUE, ok |-> FALSE, rate |-> 0]

HttpError == [raised |-> TRUE, status |-> 0, tds |-> << >>]
HttpResponse(status, tds) == [raised |-> FALSE, status |-> status, tds |-> tds]

HasMarker(td, m) == \E i \in 1..Len(td) : td[i].marker = m

(* the inner loop "for part in parts": every part that ends with "%" is    *)
(* converted and assigned in turn; [ok, found, rate]                       *)
RECURSIVE ScanParts(_, _)
ScanParts(parts, acc) ==
    IF parts = << >> \/ ~acc.ok THEN acc
    ELSE LET part == Head(parts)
         IN  ScanParts(Tail(parts),
                       IF ~part.pct THEN acc
                       ELSE IF part.ok
                            THEN [ok |-> TRUE, found |-> TRUE, rate |-> part.rate]
                            ELSE [ok |-> FALSE, found |-> TRUE, rate |-> acc.rate])

(* the loop "for td in tds"; st is [ok, r30, r15, f30, f15] *)
RECURSIVE ScanCells(_, _)
ScanCells(tds, st) ==
    IF tds = << >> \/ ~st.ok THEN st
    ELSE LET td == Head(tds)
             s30 == IF HasMarker(td, "30") /\ ~st.f30
                    THEN ScanParts(td, [ok |-> TRUE, found |-> st.f30, rate |-> st.r30])
                    ELSE [ok |-> TRUE, found |-> st.f30, rate |-> st.r30]
             s15 == IF s30.ok /\ HasMarker(td, "15") /\ ~st.f15
                    THEN ScanParts(td, [ok |-> TRUE, found |-> st.f15, rate |-> st.r15])
                    ELSE [ok |-> TRUE, found |-> st.f15, rate |-> st.r15]
             nxt == [ok |-> s30.ok /\ s15.ok, r30 |-> s30.rate, r15 |-> s15.rate,
                     f30 |-> s30.found, f15 |-> s15.found]
         IN  IF nxt.ok /\ nxt.f30 /\ nxt.f15 THEN nxt
             ELSE ScanCells(Tail(tds), nxt)

(* parse_freddie_mac_rates on what requests.get produced: [ok, r30, r15],  *)
(* ok = FALSE when an exception leaves the function                        *)
parse_freddie_mac_rates(http) ==
    IF http.raised THEN [ok |-> FALSE, r30 |-> 700, r15 |-> 700]
    ELSE LET st == ScanCells(http.tds, [ok |-> TRUE, r30 |-> 700, r15 |-> 700,
                                        f30 |-> FALSE, f15 |-> FALSE])
         IN  [ok |-> st.ok, r30 |-> st.r30, r15 |-> st.r15]

fetch_freddie_mac_rate(loan_type, loan_term_years, http) ==
    LET closest_term == IF loan_term_years < 20 THEN "15" ELSE "30"
        years_to_rate == parse_freddie_mac_rates(http)
    IN  IF years_to_rate.ok
        THEN (IF closest_term = "15" THEN years_to_rate.r15 ELSE years_to_rate.r30) + 50
        ELSE 750

(***************************************************************************)
(* Fee and insurance tables (rates in basis points, LTV in per mille).     *)
(***************************************************************************)
VA_FUNDING_FEES(fee_type, tier) ==
    IF fee_type = "first_time"
    THEN (IF tier = "no_down" THEN 215 ELSE IF tier = "5_percent_down" THEN 150 ELSE 125)
    ELSE (IF tier = "no_down" THEN 330 ELSE IF tier = "5_percent_down" THEN 150 ELSE 125)

(* the tiers entered strictly above 5% and 10% *)
calculate_va_funding_fee_Above(loan_amount, down_payment, is_first_time, is_exempt) ==
    IF is_exempt THEN 0
    ELSE LET home_price == loan_amount + down_payment
             fee_type == IF is_first_time THEN "first_time" ELSE "subsequent"
             fee_rate == IF home_price > 0 /\ 10 * down_payment > home_price
                         THEN VA_FUNDING_FEES(fee_type, "10_percent_down")
                         ELSE IF home_price > 0 /\ 20 * down_payment > home_price
                         THEN VA_FUNDING_FEES(fee_type, "5_percent_down")
                         ELSE VA_FUNDING_FEES(fee_type, "no_down")
         IN  MulBp(loan_amount, fee_rate)

calculate_va_funding_fee(loan_amount, down_payment, is_first_time, is_exempt) ==
    IF is_exempt THEN 0
    ELSE LET home_price == loan_amount + down_payment
             (* down_payment_percent >= 0.10 and >= 0.05, on exact values *)
             ge10 == home_price > 0 /\ 10 * down_payment >= home_price
             ge5 == home_price > 0 /\ 20 * down_payment >= home_price
             fee_type == IF is_first_time THEN "first_time" ELSE "subsequent"
             fee_rate == IF ge10 THEN VA_FUNDING_FEES(fee_type, "10_percent_down")
                         ELSE IF ge5 THEN VA_FUNDING_FEES(fee_type, "5_percent_down")
                         ELSE VA_FUNDING_FEES(fee_type, "no_down")
         IN  MulBp(loan_amount, fee_rate)

get_conventional_mi_rate(ltv) ==
    IF ltv <= 800 THEN 0
    ELSE IF ltv <= 850 THEN 12
    ELSE IF ltv <= 900 THEN 21
    ELSE IF ltv <= 950 THEN 30
    ELSE IF ltv <= 970 THEN 43
    ELSE 50

get_fha_mi_rate(ltv, term, loan_amount) ==
    IF term > 15
    THEN IF loan_amount <= Dollars(726200)
         THEN (IF ltv <= 950 THEN 50 ELSE 55)
         ELSE (IF ltv <= 950 THEN 70 ELSE 75)
    ELSE IF loan_amount <= Dollars(726200)
         THEN (IF ltv <= 900 THEN 15 ELSE 40)
         ELSE (IF ltv <= 780 THEN 15 ELSE IF ltv <= 900 THEN 40 ELSE 65)


(***************************************************************************)
(* The arguments one call may be given.                                    *)
(***************************************************************************)
HomePriceArgs ==
    { ArgNone, ArgNum(0, 1), ArgStr(<< "5", "0", "0", "k" >>), ArgStr(<< "$", "7", "0", "0", ",", "0", "0", "0" >>) }
LoanAmountArgs ==
    { ArgNone, ArgNum(400000, 1), ArgNum(400200, 1), ArgNum(475200, 1), ArgStr(<< "4", "8", "0", " ", "t", "h", "o", "u", "s", "a", "n", "d" >>),
      ArgNum(482700, 1), ArgNum(485000, 1), ArgNum(670000, 1),
      ArgNum(806500, 1), ArgStr(<< "$", "8", "0", "6", ",", "5", "5", "0" >>) }
DownPaymentArgs == { ArgNone, ArgStr(<< "2", "0", "%" >>), ArgNum(-5000, 1), ArgStr(<< "t", "b", "d" >>) }
LtvArgs == { ArgNone, ArgNum(96, 1), ArgNum(4, 5) }
SecondLienAmountArgs ==
    { ArgNone, ArgNum(0, 1), ArgNum(50000, 1), ArgNum(125200, 1), ArgStr(<< "1", "3", "0", "k" >>) }
PropertyTaxArgs == { ArgNone, ArgNum(6000, 1) }
HomeInsuranceArgs == { ArgNone, ArgNum(1500, 1) }

(* the calls explored: every combination of the amounts above in which at  *)
(* most one of down_payment, ltv and second_lien_amount is given, or a     *)
(* target ltv comes with one of the other two and a home price alone; the  *)
(* annual tax and insurance are given together and only with a home price  *)
(* and no loan amount                                                      *)
Requests ==
    { r \in [ home_price : HomePriceArgs, loan_amount : LoanAmountArgs,
              down_payment : DownPaymentArgs, ltv : LtvArgs,
              second_lien_amount : SecondLienAmountArgs,
              annual_property_tax : PropertyTaxArgs,
              annual_home_insurance : HomeInsuranceArgs ] :
        /\ \/ Cardinality({ f \in {"down_payment", "ltv", "second_lien_amount"} :
                              r[f] # ArgNone }) <= 1
           \/ /\ r.ltv # ArgNone
              /\ r.down_payment = ArgNone \/ r.second_lien_amount = ArgNone
              /\ r.home_price # ArgNone /\ r.loan_amount = ArgNone
              /\ r.annual_property_tax = ArgNone
        /\ (r.annual_property_tax = ArgNone) <=> (r.annual_home_insurance = ArgNone)
        /\ r.annual_property_tax # ArgNone =>
              r.loan_amount = ArgNone /\ r.home_price # ArgNone }

LoanTypeArgs ==
    { EnumArg("conventional"), StrArg(<< "F", "H", "A" >>), StrArg(<< "v", "e", "t", "e", "r", "a", "n", "s" >>),
      StrArg(<< " ", "j", "u", "m", "b", "o" >>), StrArg(<< "u", "s", "d", "a" >>) }
SecondLienTypeArgs ==
    { EnumArg("interest_only"), StrArg(<< "A", "m", "o", "r", "t", "i", "z", "e", "d" >>), StrArg(<< "b", "a", "l", "l", "o", "o", "n" >>) }
UnitsArgs == { 1, 2, 5 }

VARIABLES
    pc,                         \* the statement group that runs next
    args,                       \* the amount arguments as passed
    loan_type_arg,              \* the loan_type argument as passed
    second_lien_type_arg,       \* the second_lien_type argument as passed
    rate_arg,                   \* the annual_interest_rate argument as passed
    home_price, loan_amount, down_payment, second_lien_amount,
    annual_property_tax, annual_home_insurance, ltv,
    second_lien_is_percentage,
    loan_type, second_lien_type, units,
    calculated_ltv, calculated_cltv,
    http,                       \* what the rate source answered, if asked
    fetches,                    \* the number of requests.get calls made
    annual_interest_rate, loan_term_years,
    second_lien_rate, second_lien_term_years,
    va_first_time, va_exempt, homeowners_association_fee,
    base_loan_amount, fha_upfront_mip, va_funding_fee,
    monthly_principal_interest, mi_rate, monthly_mi,
    monthly_second_lien_payment, monthly_tax, monthly_insurance,
    total_monthly_payment,
    buydown_loan_amount,
    result,                     \* the report text built so far, by section
    ret,                        \* what the call returned or raised
    applied,                    \* a helper function applied on its own
    value                       \* and what it returned

structure_vars ==
    << home_price, loan_amount, down_payment, second_lien_amount,
       annual_property_tax, annual_home_insurance, ltv,
       second_lien_is_percentage >>
ltv_vars == << calculated_ltv, calculated_cltv >>
rate_vars == << rate_arg, http, fetches, annual_interest_rate, loan_term_years >>

cost_args == << second_lien_rate, second_lien_term_years, va_first_time,
               va_exempt, homeowners_association_fee >>
fee_vars == << base_loan_amount, fha_upfront_mip, va_funding_fee >>
payment_vars ==
    << monthly_principal_interest, mi_rate, monthly_mi,
       monthly_second_lien_payment, monthly_tax, monthly_insurance,
       total_monthly_payment >>
report_vars == << buydown_loan_amount, result >>
cost_vars == << cost_args, fee_vars, payment_vars, report_vars >>

get_rate_vars ==
    << pc, args, loan_type_arg, second_lien_type_arg, structure_vars, loan_type,
       second_lien_type,
       units, ltv_vars, rate_vars, cost_vars, ret >>
function_vars == << applied, value >>

vars == << get_rate_vars, function_vars >>

(***************************************************************************)
(* Payments are kept as the expressions the code evaluates: the           *)
(* amortization formula L r (1+r)^n / ((1+r)^n - 1) with r = rate/12/100   *)
(* ("amortized"), L / n ("straight_line"), (L rate / 100) / 12             *)
(* ("interest_only"); the monthly insurance as (amount * rate) / 12        *)
(* ("pmi") or the call of calculate_monthly_premium ("mip").               *)
(***************************************************************************)
NoPayment == [f |-> "zero", amount |-> 0, rate |-> 0, n |-> 0]
Amortized(amount, rate, n) ==
    [f |-> "amortized", amount |-> amount, rate |-> rate, n |-> n]
StraightLine(amount, n) ==
    [f |-> "straight_line", amount |-> amount, rate |-> 0, n |-> n]
InterestOnly(amount, rate) ==
    [f |-> "interest_only", amount |-> amount, rate |-> rate, n |-> 0]

(* calculate_monthly_pi_payment and the same formula inlined in get_rate   *)
(* and calculate_second_lien_payment; both branches divide by zero when    *)
(* total_payments = 0                                                      *)
PaymentRaises(total_payments) == total_payments = 0
(* a payment that is nothing when the rate is not above zero              *)
PaymentOf_NothingAtZero(amount, annual_rate, total_payments) ==
    IF annual_rate > 0 THEN Amortized(amount, annual_rate, total_payments)
    ELSE NoPayment

(* a payment computed with one period per year of the term                *)
PaymentOf_PerYear(amount, annual_rate, total_payments) ==
    IF annual_rate > 0 THEN Amortized(amount, annual_rate, total_payments \div 12)
    ELSE StraightLine(amount, total_payments)

PaymentOf(amount, annual_rate, total_payments) ==
    IF annual_rate > 0 THEN Amortized(amount, annual_rate, total_payments)
    ELSE StraightLine(amount, total_payments)

(***************************************************************************)
(* The value of an amortized payment.  With q = (1+r)^n and                *)
(* r = rate / 120000 (rate in hundredths of a percent, so rate/100/12/100) *)
(* the payment is L r q / (q - 1).  q is enclosed between a lower and an   *)
(* upper bound computed in fixed point: a number is the sequence of its    *)
(* limbs, least significant first, the first FracLimbs of them behind the  *)
(* point; every product is cut to FracLimbs and the upper bound rounds     *)
(* up.  The payment falls as q rises, so "bound <= k * payment" is decided *)
(* at the upper bound of q and "k * payment <= bound" at the lower, each   *)
(* by multiplying out: bound * 120000 * q <= k L rate q + bound * 120000.  *)
(* The code's double arithmetic differs from the exact value by far less   *)
(* than the width of the enclosure.                                        *)
(***************************************************************************)
Limb == 1000
FracLimbs == 4

RECURSIVE Carry(_, _, _)
Carry(raw, i, c) ==
    IF i > Len(raw)
    THEN (IF c = 0 THEN << >> ELSE << c % Limb >> \o Carry(raw, i, c \div Limb))
    ELSE << (raw[i] + c) % Limb >> \o Carry(raw, i + 1, (raw[i] + c) \div Limb)

FxInt(k) == [ i \in 1..FracLimbs |-> 0 ] \o Carry(<< k >>, 1, 0) \o << 0 >>

RECURSIVE FxDot(_, _, _, _)
FxDot(x, y, k, i) ==
    IF i > k \/ i > Len(x) THEN 0
    ELSE (IF k + 1 - i <= Len(y) THEN x[i] * y[k + 1 - i] ELSE 0)
         + FxDot(x, y, k, i + 1)

FxProduct(x, y) ==
    Carry([ k \in 1..(Len(x) + Len(y) - 1) |-> FxDot(x, y, k, 1) ], 1, 0)

RECURSIVE FxTrim(_)
FxTrim(x) ==
    IF Len(x) > FracLimbs + 1 /\ x[Len(x)] = 0
    THEN FxTrim(SubSeq(x, 1, Len(x) - 1))
    ELSE x

FxMulFloor(x, y) ==
    LET p == FxProduct(x, y) IN FxTrim(SubSeq(p, FracLimbs + 1, Len(p)))
FxUp(x) == Carry([ x EXCEPT ![1] = @ + 1 ], 1, 0)
FxMulCeil(x, y) == FxUp(FxMulFloor(x, y))
FxTimes(x, k) == FxProduct(x, Carry(<< k >>, 1, 0) \o << 0 >>)
FxPlus(x, y) ==
    Carry([ i \in 1..(IF Len(x) > Len(y) THEN Len(x) ELSE Len(y)) |->
              (IF i <= Len(x) THEN x[i] ELSE 0) + (IF i <= Len(y) THEN y[i] ELSE 0) ],
          1, 0)

RECURSIVE FxDivFrom(_, _, _, _)
FxDivFrom(x, k, i, rem) ==
    IF i = 0 THEN << >>
    ELSE FxDivFrom(x, k, i - 1, (rem * Limb + x[i]) % k)
         \o << (rem * Limb + x[i]) \div k >>
FxDivFloor(x, k) == FxDivFrom(x, k, Len(x), 0)

RECURSIVE FxLeqFrom(_, _, _)
FxLeqFrom(x, y, i) ==
    IF i = 0 THEN TRUE
    ELSE LET a == IF i <= Len(x) THEN x[i] ELSE 0
             b == IF i <= Len(y) THEN y[i] ELSE 0
         IN  IF a < b THEN TRUE ELSE IF a > b THEN FALSE
             ELSE FxLeqFrom(x, y, i - 1)
FxLeq(x, y) == FxLeqFrom(x, y, IF Len(x) > Len(y) THEN Len(x) ELSE Len(y))

(* acc * x^n by squaring; the product and the square are worked out      *)
(* before the recursion goes on                                            *)
RECURSIVE FxPowerFloor(_, _, _)
FxPowerFloor(acc, x, n) ==
    IF n = 0 THEN acc
    ELSE LET product == IF n % 2 = 1 THEN FxMulFloor(acc, x) ELSE acc
             square == IF n > 1 THEN FxMulFloor(x, x) ELSE x
         IN  IF Len(product) = 0 \/ Len(square) = 0 THEN product
             ELSE FxPowerFloor(product, square, n \div 2)
FxPowFloor(x, n) == FxPowerFloor(FxInt(1), x, n)
(* acc * x^n by squaring; the product and the square are worked out      *)
(* before the recursion goes on                                            *)
RECURSIVE FxPowerCeil(_, _, _)
FxPowerCeil(acc, x, n) ==
    IF n = 0 THEN acc
    ELSE LET product == IF n % 2 = 1 THEN FxMulCeil(acc, x) ELSE acc
             square == IF n > 1 THEN FxMulCeil(x, x) ELSE x
         IN  IF Len(product) = 0 \/ Len(square) = 0 THEN product
             ELSE FxPowerCeil(product, square, n \div 2)
FxPowCeil(x, n) == FxPowerCeil(FxInt(1), x, n)

GrowthFloor(rate, n) == FxPowFloor(FxPlus(FxInt(1), FxDivFloor(FxInt(rate), 120000)), n)
GrowthCeil(rate, n) == FxPowCeil(FxPlus(FxInt(1), FxUp(FxDivFloor(FxInt(rate), 120000))), n)

AtLeastWith(q, amount, rate, k, bound) ==
    FxLeq(FxTimes(FxTimes(q, bound), 120000),
          FxPlus(FxTimes(FxTimes(FxTimes(q, k), amount), rate),
                 FxTimes(FxTimes(FxInt(1), bound), 120000)))
AtMostWith(q, amount, rate, k, bound) ==
    FxLeq(FxPlus(FxTimes(FxTimes(FxTimes(q, k), amount), rate),
                 FxTimes(FxTimes(FxInt(1), bound), 120000)),
          FxTimes(FxTimes(q, bound), 120000))
AmortizedAtLeast(amount, rate, n, k, bound) ==
    AtLeastWith(GrowthCeil(rate, n), amount, rate, k, bound)
AmortizedAtMost(amount, rate, n, k, bound) ==
    AtMostWith(GrowthFloor(rate, n), amount, rate, k, bound)

NoInsurance ==
    [f |-> "zero", amount |-> 0, rate |-> 0, interest |-> 0, term_years |-> 0]
Pmi(amount, rate) ==
    [f |-> "pmi", amount |-> amount, rate |-> rate, interest |-> 0, term_years |-> 0]
Mip(interest, orig_mtg, mip, term_years) ==
    [f |-> "mip", amount |-> orig_mtg, rate |-> mip, interest |-> interest,
     term_years |-> term_years]

(* the values get_rate returns or raises *)
NoReturn == [kind |-> "none", shape |-> "", msg |-> "", amount |-> 0, limit |-> 0]

(* the error value of the earlier revisions of the tool: a mapping with    *)
(* the key "error"                                                         *)
ErrorMessage_Mapping(msg) ==
    [kind |-> "error", shape |-> "dict", msg |-> msg, amount |-> 0, limit |-> 0]

ErrorMessage(msg) ==
    [kind |-> "error", shape |-> "str", msg |-> msg, amount |-> 0, limit |-> 0]
LimitMessage(amount, limit) ==
    [ErrorMessage("exceeds_limit") EXCEPT !.amount = amount, !.limit = limit]
Report ==
    [kind |-> "report", shape |-> "str", msg |-> "", amount |-> 0, limit |-> 0]
Raised(exc) ==
    [kind |-> "raised", shape |-> "", msg |-> exc, amount |-> 0, limit |-> 0]

(* no helper function has been applied on its own *)
NotApplied == [f |-> ""]
NoValue == [ok |-> FALSE]

Init ==
    /\ pc = "start"
    /\ args = [ home_price |-> ArgNone, loan_amount |-> ArgNone,
                down_payment |-> ArgNone, ltv |-> ArgNone,
                second_lien_amount |-> ArgNone,
                annual_property_tax |-> ArgNone,
                annual_home_insurance |-> ArgNone ]
    /\ loan_type_arg = EnumArg("conventional")
    /\ second_lien_type_arg = EnumArg("interest_only")
    /\ rate_arg = None
    /\ home_price = None
    /\ loan_amount = None
    /\ down_payment = None
    /\ second_lien_amount = None
    /\ annual_property_tax = None
    /\ annual_home_insurance = None
    /\ ltv = None
    /\ second_lien_is_percentage = FALSE
    /\ loan_type = "conventional"
    /\ second_lien_type = "interest_only"
    /\ units = 1
    /\ calculated_ltv = 0
    /\ calculated_cltv = 0
    /\ http = HttpError
    /\ fetches = 0
    /\ annual_interest_rate = None
    /\ loan_term_years = 30
    /\ second_lien_rate = None
    /\ second_lien_term_years = 30
    /\ va_first_time = TRUE
    /\ va_exempt = FALSE
    /\ homeowners_association_fee = 0
    /\ base_loan_amount = 0
    /\ fha_upfront_mip = 0
    /\ va_funding_fee = 0
    /\ monthly_principal_interest = NoPayment
    /\ mi_rate = 0
    /\ monthly_mi = NoInsurance
    /\ monthly_second_lien_payment = NoPayment
    /\ monthly_tax = NoPayment
    /\ monthly_insurance = NoPayment
    /\ total_monthly_payment = << >>
    /\ buydown_loan_amount = 0
    /\ result = << >>
    /\ ret = NoReturn
    /\ applied = NotApplied
    /\ value = NoValue

(* get_rate is called *)
Call ==
    /\ pc = "start"
    /\ \E r \in Requests : args' = r
    /\ pc' = "parse"
    /\ UNCHANGED << function_vars, loan_type_arg, structure_vars, loan_type,
                    second_lien_type_arg, second_lien_type, units, ltv_vars, rate_vars, cost_vars, ret >>

IsPercentage(a) == a.kind = "str" /\ Contains(a.s, "%")

(* parse_currency_amount of every amount argument *)
ParseArgs(a) == [f \in DOMAIN a |-> parse_currency_amount(a[f])]

(* lines 681-716 with the amounts parsed: parsed[f] is the parse of        *)
(* args[f]                                                                 *)
ParsedInputs(parsed) ==
    LET Money(f) == IF args[f].kind = "none" THEN None
                    ELSE Some(AsCents(parsed[f]))
        (* a percentage becomes dollars when home_price is known *)
        Share(f) == IF args[f].kind = "none" THEN None
                    ELSE IF IsPercentage(args[f]) /\ args.home_price.kind # "none"
                         THEN Some(MulBp(AsCents(parsed.home_price), AsBp(parsed[f])))
                         ELSE Some(AsCents(parsed[f]))
    IN  IF \E f \in DOMAIN args : args[f].kind # "none" /\ ~parsed[f].ok
        THEN /\ ret' = ErrorMessage("invalid_input_format")
             /\ pc' = "done"
             /\ UNCHANGED structure_vars
        ELSE /\ home_price' = Money("home_price")
             /\ loan_amount' = Money("loan_amount")
             /\ down_payment' = Share("down_payment")
             /\ second_lien_amount' = Share("second_lien_amount")
             /\ second_lien_is_percentage' =
                    (/\ IsPercentage(args.second_lien_amount)
                     /\ args.home_price.kind = "none")
             /\ annual_property_tax' = Money("annual_property_tax")
             /\ annual_home_insurance' = Money("annual_home_insurance")
             /\ ltv' = IF args.ltv.kind = "none" THEN None
                       ELSE Some(AsBp(parsed.ltv))
             /\ pc' = "require_amount"
             /\ UNCHANGED ret

(* lines 681-716: the amounts are parsed *)
ParseInputs ==
    /\ pc = "parse"
    /\ ParsedInputs(ParseArgs(args))
    /\ UNCHANGED << function_vars, args, loan_type_arg, loan_type, second_lien_type_arg, second_lien_type, units,
                    ltv_vars, rate_vars, cost_vars >>

(* the test with "or" in place of "and" *)
AmountMissing_Either(price, amount) == ~price.set \/ ~amount.set

(* line 718: home_price is None and loan_amount is None *)
AmountMissing(price, amount) == ~price.set /\ ~amount.set

(* lines 718-719 *)
RequireAmount ==
    /\ pc = "require_amount"
    /\ IF AmountMissing(home_price, loan_amount)
       THEN ret' = ErrorMessage("price_or_amount_required") /\ pc' = "done"
       ELSE pc' = "normalize_loan_type" /\ UNCHANGED ret
    /\ UNCHANGED << function_vars, args, loan_type_arg, structure_vars, loan_type,
                    second_lien_type_arg, second_lien_type, units, ltv_vars, rate_vars, cost_vars >>

(* lines 721-726 *)
NormalizeLoanType ==
    /\ pc = "normalize_loan_type"
    /\ \E a \in LoanTypeArgs :
         /\ loan_type_arg' = a
         /\ IF a.kind = "enum"
            THEN loan_type' = a.v /\ pc' = "normalize_second_lien_type"
                 /\ UNCHANGED ret
            ELSE IF validate_normalize_loan_type(a).ok
            THEN /\ loan_type' = validate_normalize_loan_type(a).v
                 /\ pc' = "normalize_second_lien_type"
                 /\ UNCHANGED ret
            ELSE /\ ret' = ErrorMessage("invalid_loan_type")
                 /\ pc' = "done"
                 /\ UNCHANGED loan_type
    /\ UNCHANGED << function_vars, args, structure_vars, second_lien_type_arg, second_lien_type, units, ltv_vars,
                    rate_vars, cost_vars >>

(* lines 728-743; "None" stands for a second_lien_type of None *)
NormalizeSecondLien ==
    /\ pc = "normalize_second_lien_type"
    /\ \E a \in SecondLienTypeArgs :
         /\ second_lien_type_arg' = a
         /\ LET n == NormalizeSecondLienType(a.s)
                t == IF a.kind = "enum" THEN a.v ELSE IF a.kind = "str" THEN n.v ELSE "None"
            IN  IF a.kind = "str" /\ ~n.ok
                THEN /\ ret' = ErrorMessage("invalid_second_lien_type")
                     /\ pc' = "done"
                     /\ UNCHANGED second_lien_type
                ELSE /\ second_lien_type' =
                           (IF t = "None" /\ second_lien_amount.set
                            THEN "interest_only" ELSE t)
                     /\ pc' = "determine_home_price"
                     /\ UNCHANGED ret
    /\ UNCHANGED << function_vars, args, loan_type_arg, structure_vars, loan_type, units,
                    ltv_vars, rate_vars, cost_vars >>


(* lines 745-752: no home price was given (a loan amount was) *)
DetermineHomePrice ==
    /\ pc = "determine_home_price"
    /\ IF ~home_price.set
       THEN LET dp == IF down_payment.set THEN down_payment.v
                      ELSE MulBp(loan_amount.v, 2500)
                hp == loan_amount.v + dp
            IN  /\ down_payment' = Some(dp)
                /\ home_price' = Some(hp)
                (* the second lien still holds the share p: 100 p cents *)
                /\ second_lien_amount' =
                       IF second_lien_amount.set /\ second_lien_is_percentage
                       THEN Some(MulBp(hp, second_lien_amount.v * 100))
                       ELSE second_lien_amount
       ELSE UNCHANGED << home_price, down_payment, second_lien_amount >>
    /\ pc' = "handle_ltv"
    /\ UNCHANGED << function_vars, args, loan_type_arg, loan_amount, annual_property_tax,
                    annual_home_insurance, ltv, second_lien_is_percentage,
                    loan_type, second_lien_type_arg, second_lien_type, units, ltv_vars, rate_vars, cost_vars, ret >>

(* lines 756-757: a target above 1 is a percentage; a share is held in     *)
(* basis points                                                            *)
TargetLtv_AlwaysPercent(l) == l \div 100

TargetLtv(l) == IF l > 10000 THEN l \div 100 ELSE l

(* lines 754-763 *)
HandleLtv ==
    /\ pc = "handle_ltv"
    /\ IF ltv.set
       THEN LET l == TargetLtv(ltv.v)
                la == MulBp(home_price.v, l)
            IN  /\ ltv' = Some(l)
                /\ loan_amount' = Some(la)
                /\ down_payment' =
                       IF second_lien_amount.set
                       THEN Some(home_price.v - la - second_lien_amount.v)
                       ELSE Some(home_price.v - la)
       ELSE UNCHANGED << ltv, loan_amount, down_payment >>
    /\ pc' = "default_down_payment"
    /\ UNCHANGED << function_vars, args, loan_type_arg, home_price, second_lien_amount,
                    annual_property_tax, annual_home_insurance,
                    second_lien_is_percentage, loan_type, second_lien_type_arg, second_lien_type,
                    units, ltv_vars, rate_vars, cost_vars, ret >>

(* lines 765-776 *)
DefaultDownPayment ==
    /\ pc = "default_down_payment"
    /\ IF ~down_payment.set
       THEN LET dflt == IF loan_type = "fha" THEN MulBp(home_price.v, 350)
                        ELSE IF loan_type = "va" THEN 0
                        ELSE MulBp(home_price.v, 2000)
            IN  down_payment' =
                    IF second_lien_amount.set
                    THEN Some(Max(0, dflt - second_lien_amount.v))
                    ELSE Some(dflt)
       ELSE UNCHANGED down_payment
    /\ pc' = "calculate_loan_amount"
    /\ UNCHANGED << function_vars, args, loan_type_arg, home_price, loan_amount,
                    second_lien_amount, annual_property_tax,
                    annual_home_insurance, ltv, second_lien_is_percentage,
                    loan_type, second_lien_type_arg, second_lien_type, units, ltv_vars, rate_vars, cost_vars, ret >>

(* lines 778-784 *)
CalculateLoanAmount ==
    /\ pc = "calculate_loan_amount"
    /\ IF ~loan_amount.set
       THEN loan_amount' =
                IF second_lien_amount.set
                THEN Some(home_price.v - down_payment.v - second_lien_amount.v)
                ELSE Some(home_price.v - down_payment.v)
       ELSE UNCHANGED loan_amount
    /\ pc' = "validate_down_payment"
    /\ UNCHANGED << function_vars, args, loan_type_arg, home_price, down_payment,
                    second_lien_amount, annual_property_tax,
                    annual_home_insurance, ltv, second_lien_is_percentage,
                    loan_type, second_lien_type_arg, second_lien_type, units, ltv_vars, rate_vars, cost_vars, ret >>

(* line 787 *)
NegativeDownPayment_Large(dp) == dp < -Dollars(10000)

NegativeDownPayment(dp) == dp < 0

(* lines 786-788 *)
ValidateDownPayment ==
    /\ pc = "validate_down_payment"
    /\ IF NegativeDownPayment(down_payment.v)
       THEN ret' = ErrorMessage("negative_down_payment") /\ pc' = "done"
       ELSE pc' = "promote_jumbo" /\ UNCHANGED ret
    /\ UNCHANGED << function_vars, args, loan_type_arg, structure_vars, loan_type,
                    second_lien_type_arg, second_lien_type, units, ltv_vars, rate_vars, cost_vars >>

(* lines 790-792; LOAN_LIMITS["conventional"][units - 1] is evaluated only *)
(* when the loan type is Conventional                                      *)
PromoteJumbo ==
    /\ pc = "promote_jumbo"
    /\ \E u \in UnitsArgs :
         /\ units' = u
         /\ IF loan_type = "conventional" /\ ~IndexOk(u - 1)
            THEN ret' = Raised("IndexError") /\ pc' = "done" /\ UNCHANGED loan_type
            ELSE /\ loan_type' =
                        IF /\ loan_type = "conventional"
                           /\ loan_amount.v > ListGet(LOAN_LIMITS("conventional"), u - 1)
                        THEN "jumbo" ELSE loan_type
                 /\ pc' = "validate_loan_limits"
                 /\ UNCHANGED ret
    /\ UNCHANGED << function_vars, args, loan_type_arg, structure_vars, second_lien_type_arg, second_lien_type,
                    ltv_vars, rate_vars, cost_vars >>

(* lines 794-797 *)
ValidateLoanLimits ==
    /\ pc = "validate_loan_limits"
    /\ IF loan_type \in {"conventional", "fha"}
       THEN IF ~IndexOk(units - 1)
            THEN ret' = Raised("IndexError") /\ pc' = "done"
            ELSE IF loan_amount.v > ListGet(LOAN_LIMITS(loan_type), units - 1)
            THEN /\ ret' = LimitMessage(loan_amount.v,
                                        ListGet(LOAN_LIMITS(loan_type), units - 1))
                 /\ pc' = "done"
            ELSE pc' = "validate_cltv" /\ UNCHANGED ret
       ELSE pc' = "validate_cltv" /\ UNCHANGED ret
    /\ UNCHANGED << function_vars, args, loan_type_arg, structure_vars, loan_type,
                    second_lien_type_arg, second_lien_type, units, ltv_vars, rate_vars, cost_vars >>

(* lines 799-809 *)
ValidateCltv ==
    /\ pc = "validate_cltv"
    /\ LET l == IF home_price.v > 0 THEN Round3(loan_amount.v, home_price.v) ELSE 0
           c == IF second_lien_amount.set /\ second_lien_amount.v > 0
                THEN (IF home_price.v > 0
                      THEN Round3(loan_amount.v + second_lien_amount.v, home_price.v)
                      ELSE 0)
                ELSE l
       IN  /\ calculated_ltv' = l
           /\ calculated_cltv' = c
           /\ IF c > 1050
              THEN ret' = ErrorMessage("cltv_exceeds_105") /\ pc' = "done"
              ELSE pc' = "validate_ltv" /\ UNCHANGED ret
    /\ UNCHANGED << function_vars, args, loan_type_arg, structure_vars, loan_type,
                    second_lien_type_arg, second_lien_type, units, rate_vars, cost_vars >>

(* a policy that moves every loan that is not FHA to FHA above 95% *)
LtvPolicy_AnyType(type, first_lien_ltv) ==
    IF type # "fha" /\ first_lien_ltv > 950
    THEN IF first_lien_ltv > 965
         THEN [error |-> "ltv_exceeds_conventional_consider_fha", loan_type |-> type]
         ELSE [error |-> "", loan_type |-> "fha"]
    ELSE IF type = "fha" /\ first_lien_ltv > 965
    THEN [error |-> "ltv_exceeds_fha", loan_type |-> type]
    ELSE [error |-> "", loan_type |-> type]

(* lines 811-818: the first-lien LTV policy; [error, loan_type] *)
LtvPolicy(type, first_lien_ltv) ==
    IF type = "conventional" /\ first_lien_ltv > 950
    THEN IF first_lien_ltv > 965
         THEN [error |-> "ltv_exceeds_conventional_consider_fha", loan_type |-> type]
         ELSE [error |-> "", loan_type |-> "fha"]
    ELSE IF type = "fha" /\ first_lien_ltv > 965
    THEN [error |-> "ltv_exceeds_fha", loan_type |-> type]
    ELSE [error |-> "", loan_type |-> type]

ValidateLtv ==
    /\ pc = "validate_ltv"
    /\ LET p == LtvPolicy(loan_type, calculated_ltv)
       IN  IF p.error # ""
           THEN ret' = ErrorMessage(p.error) /\ pc' = "done" /\ UNCHANGED loan_type
           ELSE loan_type' = p.loan_type /\ pc' = "get_interest_rate" /\ UNCHANGED ret
    /\ UNCHANGED << function_vars, args, loan_type_arg, structure_vars, second_lien_type_arg, second_lien_type,
                    units, ltv_vars, rate_vars, cost_vars >>

RateArgs == { None, Some(0), Some(700) }
TermArgs == { 0, 15, 30 }
Responses ==
    { HttpError,
      HttpResponse(200, << >>),
      HttpResponse(200, << << Marker("30"), Word, Pct(650) >>,
                           << Marker("15"), Word, Pct(575) >> >>),
      HttpResponse(200, << << Marker("30"), Word, BadPct >> >>),
      HttpResponse(503, << << Marker("30"), Word, Pct(650) >> >>) }
SecondLienRateArgs == { None, Some(900) }
SecondLienTermArgs == { 0, 30 }

(* lines 820-822: the rate source is asked when no rate was given *)
GetInterestRate ==
    /\ pc = "get_interest_rate"
    /\ \E r \in RateArgs, y \in TermArgs :
         /\ rate_arg' = r
         /\ loan_term_years' = y
         /\ IF ~r.set
            THEN \E h \in Responses :
                   /\ http' = h
                   /\ fetches' = fetches + 1
                   /\ annual_interest_rate' =
                          Some(fetch_freddie_mac_rate(loan_type, y, h))
            ELSE /\ annual_interest_rate' = r
                 /\ UNCHANGED << http, fetches >>
    /\ pc' = "prepare_costs"
    /\ UNCHANGED << function_vars, args, loan_type_arg, structure_vars, loan_type,
                    second_lien_type_arg, second_lien_type, units, ltv_vars, cost_vars, ret >>

HasSecondLien == second_lien_amount.set /\ second_lien_amount.v > 0

(* lines 824-846: second-lien rate, financed fees, default tax and         *)
(* insurance                                                               *)
PrepareCosts ==
    /\ pc = "prepare_costs"
    /\ IF HasSecondLien
       THEN \E r \in SecondLienRateArgs :
              second_lien_rate' =
                  IF r.set THEN r ELSE Some(annual_interest_rate.v + 100)
       ELSE UNCHANGED second_lien_rate
    /\ base_loan_amount' = loan_amount.v
    /\ fha_upfront_mip' = IF loan_type = "fha" THEN MulBp(loan_amount.v, 175) ELSE 0
    /\ IF loan_type = "va"
       THEN \E ft \in BOOLEAN, ex \in BOOLEAN :
              /\ va_first_time' = ft
              /\ va_exempt' = ex
              /\ va_funding_fee' =
                     calculate_va_funding_fee(loan_amount.v, down_payment.v, ft, ex)
       ELSE va_funding_fee' = 0 /\ UNCHANGED << va_first_time, va_exempt >>
    /\ loan_amount' = Some(loan_amount.v + fha_upfront_mip' + va_funding_fee')
    /\ annual_property_tax' =
           IF annual_property_tax.set THEN annual_property_tax
           ELSE Some(MulBp(home_price.v, 65))
    /\ annual_home_insurance' =
           IF annual_home_insurance.set THEN annual_home_insurance
           ELSE Some(MulBp(home_price.v, 20))
    /\ pc' = "first_lien_payment"
    /\ UNCHANGED << function_vars, args, loan_type_arg, home_price, down_payment,
                    second_lien_amount, ltv, second_lien_is_percentage,
                    loan_type, second_lien_type_arg, second_lien_type, units, ltv_vars, rate_vars,
                    second_lien_term_years, homeowners_association_fee,
                    payment_vars, report_vars, ret >>

(* lines 848-860 *)
FirstLienPayment ==
    /\ pc = "first_lien_payment"
    /\ LET total_payments == loan_term_years * 12
       IN  IF PaymentRaises(total_payments)
           THEN /\ ret' = Raised("ZeroDivisionError")
                /\ pc' = "done"
                /\ UNCHANGED monthly_principal_interest
           ELSE /\ monthly_principal_interest' =
                       PaymentOf(loan_amount.v, annual_interest_rate.v, total_payments)
                /\ pc' = "mortgage_insurance"
                /\ UNCHANGED ret
    /\ UNCHANGED << function_vars, args, loan_type_arg, structure_vars, loan_type,
                    second_lien_type_arg, second_lien_type, units, ltv_vars, rate_vars, cost_args,
                    fee_vars, mi_rate, monthly_mi, monthly_second_lien_payment,
                    monthly_tax, monthly_insurance, total_monthly_payment,
                    report_vars >>

(* mortgage insurance that charges PMI on every loan that is not FHA *)
MortgageInsuranceOf_NotFha(type, first_lien_ltv, amount, base_amount, rate, term_years) ==
    IF type = "fha"
    THEN [mi_rate |-> get_fha_mi_rate(first_lien_ltv, term_years, base_amount),
          monthly_mi |-> Mip(rate, base_amount,
                             get_fha_mi_rate(first_lien_ltv, term_years, base_amount),
                             term_years)]
    ELSE IF first_lien_ltv > 800
    THEN [mi_rate |-> get_conventional_mi_rate(first_lien_ltv),
          monthly_mi |-> Pmi(amount, get_conventional_mi_rate(first_lien_ltv))]
    ELSE [mi_rate |-> 0, monthly_mi |-> NoInsurance]

(* lines 862-878: [mi_rate, monthly_mi] *)
MortgageInsuranceOf(type, first_lien_ltv, amount, base_amount, rate, term_years) ==
    IF type = "conventional"
    THEN IF first_lien_ltv > 800
         THEN [mi_rate |-> get_conventional_mi_rate(first_lien_ltv),
               monthly_mi |-> Pmi(amount, get_conventional_mi_rate(first_lien_ltv))]
         ELSE [mi_rate |-> 0, monthly_mi |-> NoInsurance]
    ELSE IF type = "fha"
    THEN [mi_rate |-> get_fha_mi_rate(first_lien_ltv, term_years, base_amount),
          monthly_mi |-> Mip(rate, base_amount,
                             get_fha_mi_rate(first_lien_ltv, term_years, base_amount),
                             term_years)]
    ELSE [mi_rate |-> 0, monthly_mi |-> NoInsurance]

MortgageInsurance ==
    /\ pc = "mortgage_insurance"
    /\ LET mi == MortgageInsuranceOf(loan_type, calculated_ltv, loan_amount.v,
                                     base_loan_amount, annual_interest_rate.v,
                                     loan_term_years)
       IN  mi_rate' = mi.mi_rate /\ monthly_mi' = mi.monthly_mi
    /\ pc' = "second_lien_payment"
    /\ UNCHANGED << function_vars, args, loan_type_arg, structure_vars, loan_type,
                    second_lien_type_arg, second_lien_type, units, ltv_vars, rate_vars, cost_args,
                    fee_vars, monthly_principal_interest,
                    monthly_second_lien_payment, monthly_tax,
                    monthly_insurance, total_monthly_payment,
                    report_vars, ret >>

(* calculate_second_lien_payment; [raises, payment] *)
calculate_second_lien_payment(amount, rate, type, term_years) ==
    IF type = "interest_only"
    THEN [raises |-> FALSE, payment |-> InterestOnly(amount, rate)]
    ELSE [raises |-> PaymentRaises(term_years * 12),
          payment |-> PaymentOf(amount, rate, term_years * 12)]

(* a sum that leaves the HOA fee out                                       *)
TotalOf_NoHoa(pi, second, tax, insurance, mi, hoa) ==
    << pi, second, tax, insurance, mi >>

(* lines 894-902: the total, kept as its summands in the order added       *)
TotalOf(pi, second, tax, insurance, mi, hoa) ==
    << pi, second, tax, insurance, mi, hoa >>

(* x / k, kept as an expression                                            *)
Div(x, k) == [f |-> "div", a |-> x, k |-> k]

HoaArgs == { 0, Dollars(250) }

(* lines 880-902: second-lien payment, escrow and the total *)
TotalPayment ==
    /\ pc = "second_lien_payment"
    /\ \E y \in (IF HasSecondLien THEN SecondLienTermArgs ELSE {30}),
          hoa \in HoaArgs :
         LET second == IF HasSecondLien
                       THEN calculate_second_lien_payment(
                                second_lien_amount.v, second_lien_rate.v,
                                second_lien_type, y)
                       ELSE [raises |-> FALSE, payment |-> NoPayment]
         IN  /\ second_lien_term_years' = y
             /\ homeowners_association_fee' = hoa
             /\ IF second.raises
                THEN /\ ret' = Raised("ZeroDivisionError")
                     /\ pc' = "done"
                     /\ UNCHANGED << monthly_second_lien_payment, monthly_tax,
                                     monthly_insurance, total_monthly_payment >>
                ELSE /\ monthly_second_lien_payment' = second.payment
                     /\ monthly_tax' = Div(annual_property_tax.v, 12)
                     /\ monthly_insurance' = Div(annual_home_insurance.v, 12)
                     /\ total_monthly_payment' =
                            TotalOf(monthly_principal_interest, second.payment,
                                    monthly_tax', monthly_insurance',
                                    monthly_mi, hoa)
                     /\ pc' = "build_report"
                     /\ UNCHANGED ret
    /\ UNCHANGED << function_vars, args, loan_type_arg, structure_vars, loan_type,
                    second_lien_type_arg, second_lien_type, units, ltv_vars, rate_vars,
                    second_lien_rate, va_first_time, va_exempt, fee_vars,
                    monthly_principal_interest, mi_rate, monthly_mi,
                    report_vars >>

(* monthly_mi > 0 *)
InsuranceCharged(mi) ==
    \/ mi.f = "pmi" /\ mi.amount > 0 /\ mi.rate > 0
    \/ mi.f = "mip" /\ mi.amount > 0 /\ mi.rate > 0


(* the buydown basis taken as the amount the first lien is paid on *)
BuydownLoanAmountOf_Financed(type, base, amount, fee) == amount

(* line 1019 *)
BuydownLoanAmountOf(type, base, amount, fee) ==
    IF type = "fha" THEN base
    ELSE IF type = "va" THEN amount - fee
    ELSE amount

(* lines 907-1021: the report up to the buydown table; the down payment   *)
(* percentage of line 956 divides by home_price                            *)
BuildReport ==
    /\ pc = "build_report"
    /\ IF home_price.v = 0
       THEN /\ result' = << "payment", "breakdown" >>
            /\ ret' = Raised("ZeroDivisionError")
            /\ pc' = "done"
            /\ UNCHANGED buydown_loan_amount
       ELSE /\ buydown_loan_amount' =
                   BuydownLoanAmountOf(loan_type, base_loan_amount,
                                       loan_amount.v, va_funding_fee)
            /\ result' = << "payment", "breakdown", "loan-details" >>
                         \o (IF /\ loan_type = "conventional"
                                /\ calculated_ltv > 800
                                /\ InsuranceCharged(monthly_mi)
                             THEN << "assumptions" >> ELSE << >>)
                         \o << "buydown-options", "buydown-note" >>
            /\ pc' = "finish"
            /\ UNCHANGED ret
    /\ UNCHANGED << function_vars, args, loan_type_arg, structure_vars, loan_type,
                    second_lien_type_arg, second_lien_type, units, ltv_vars, rate_vars, cost_args,
                    fee_vars, payment_vars >>

(* lines 1023-1053: disclaimers, the closing tag, return *)
Finish ==
    /\ pc = "finish"
    /\ result' = result
                 \o (IF units # 1 \/ HasSecondLien
                        \/ (/\ loan_type = "conventional"
                            /\ calculated_ltv > 800
                            /\ InsuranceCharged(monthly_mi))
                     THEN << "disclaimer" >> ELSE << >>)
                 \o << "end" >>
    /\ ret' = Report
    /\ pc' = "done"
    /\ UNCHANGED << function_vars, args, loan_type_arg, structure_vars, loan_type,
                    second_lien_type_arg, second_lien_type, units, ltv_vars, rate_vars, cost_args,
                    fee_vars, payment_vars, buydown_loan_amount >>

Next ==
    \/ Call
    \/ ParseInputs
    \/ RequireAmount
    \/ NormalizeLoanType
    \/ NormalizeSecondLien
    \/ DetermineHomePrice
    \/ HandleLtv
    \/ DefaultDownPayment
    \/ CalculateLoanAmount
    \/ ValidateDownPayment
    \/ PromoteJumbo
    \/ ValidateLoanLimits
    \/ ValidateCltv
    \/ ValidateLtv
    \/ GetInterestRate
    \/ PrepareCosts
    \/ FirstLienPayment
    \/ MortgageInsurance
    \/ TotalPayment
    \/ BuildReport
    \/ Finish

Spec == Init /\ [][Next]_vars

(* what a function applied on its own gives back: [ok, v], ok = FALSE for  *)
(* an exception                                                            *)
Returned(v) == [ok |-> TRUE, v |-> v]
Raises == [ok |-> FALSE, v |-> 0]

(***************************************************************************)
(* calculate_buydown_scenarios.  Differences, products and running totals  *)
(* of payments are kept as the expressions the code evaluates, like the    *)
(* payments themselves: a - b ("sub"), a * k ("mul"), a + b ("add").       *)
(***************************************************************************)
Sub(a, b) == [f |-> "sub", a |-> a, b |-> b]
Mul(a, k) == [f |-> "mul", a |-> a, k |-> k]
Add(a, b) == [f |-> "add", a |-> a, b |-> b]

calculate_monthly_pi_payment(amount, annual_rate, term_years) ==
    PaymentOf(amount, annual_rate, term_years * 12)

(* the rate reductions of the three variants, year by year, in hundredths  *)
(* of a percent                                                            *)
BuydownReductions ==
    ("3_1" :> << 300, 200, 100 >>) @@ ("2_1" :> << 200, 100 >>) @@
    ("1_1" :> << 100 >>)
BuydownTypes ==
    ("3_1" :> "3/1 Buydown") @@ ("2_1" :> "2/1 Buydown") @@
    ("1_1" :> "1/1 Buydown")

(* a year whose subsidy is the saving of one month                         *)
BuydownYear_OneMonth(amount, base_rate, term_years, base_payment, year, rate_reduction) ==
    LET reduced_payment ==
            calculate_monthly_pi_payment(amount, base_rate - rate_reduction,
                                         term_years)
    IN  [year |-> year, rate |-> base_rate - rate_reduction,
         payment |-> reduced_payment,
         monthly_savings |-> Sub(base_payment, reduced_payment),
         annual_subsidy |-> Sub(base_payment, reduced_payment)]

(* the body of the loop over (year, rate_reduction): the reduced rate is   *)
(* not kept from going to zero or below                                    *)
BuydownYear(amount, base_rate, term_years, base_payment, year, rate_reduction) ==
    LET reduced_rate == base_rate - rate_reduction
        reduced_payment ==
            calculate_monthly_pi_payment(amount, reduced_rate, term_years)
        monthly_savings == Sub(base_payment, reduced_payment)
    IN  [year |-> year, rate |-> reduced_rate, payment |-> reduced_payment,
         monthly_savings |-> monthly_savings,
         annual_subsidy |-> Mul(monthly_savings, 12)]

(* total_subsidy after the first n years: it starts at 0 and each year     *)
(* adds its annual_subsidy                                                 *)
RECURSIVE BuydownTotal(_, _)
BuydownTotal(years, n) ==
    IF n = 0 THEN NoPayment
    ELSE Add(BuydownTotal(years, n - 1), years[n].annual_subsidy)

BuydownVariant(amount, base_rate, term_years, base_payment, variant) ==
    LET reductions == BuydownReductions[variant]
        years == [ year \in 1..Len(reductions) |->
                     BuydownYear(amount, base_rate, term_years,
                                 base_payment, year, reductions[year]) ]
    IN  [type |-> BuydownTypes[variant], years |-> years,
         base_payment |-> base_payment, base_rate |-> base_rate,
         total_subsidy |-> BuydownTotal(years, Len(years))]

BuydownScenarios(amount, base_rate, term_years, base_payment) ==
    [ variant \in {"standard", "3_1", "2_1", "1_1"} |->
        IF variant = "standard"
        THEN [type |-> "Standard", payment |-> base_payment,
              rate |-> base_rate, years |-> << >>]
        ELSE BuydownVariant(amount, base_rate, term_years, base_payment,
                            variant) ]

(* the first call of calculate_monthly_pi_payment divides by zero when     *)
(* term_years = 0                                                          *)
calculate_buydown_scenarios(amount, base_rate, term_years) ==
    IF PaymentRaises(term_years * 12) THEN Raises
    ELSE Returned(BuydownScenarios(amount, base_rate, term_years,
             calculate_monthly_pi_payment(amount, base_rate, term_years)))

(***************************************************************************)
(* The helper functions applied on their own.  The one step of a behaviour *)
(* applies one function to arguments drawn from its input set; applied     *)
(* holds the                                                               *)
(* function and its arguments, value what it returned ([ok, v], ok = FALSE *)
(* for an exception).                                                      *)
(***************************************************************************)
(* loan amounts and down payments on both sides of the 5% and 10% tiers,   *)
(* and a loan and down payment of nothing                                  *)
VaLoanAmounts ==
    { Dollars(0), Dollars(270000), Dollars(285000), Dollars(300000), Dollars(400000) }
VaDownPayments ==
    { Dollars(0), Dollars(14999), Dollars(15000), Dollars(29999), Dollars(30000),
      Dollars(100000) }

ApplyVaFundingFee ==
    /\ applied = NotApplied
    /\ \E la \in VaLoanAmounts, dp \in VaDownPayments,
          ft \in BOOLEAN, ex \in BOOLEAN :
         /\ applied' = [f |-> "calculate_va_funding_fee", loan_amount |-> la,
                        down_payment |-> dp, is_first_time |-> ft,
                        is_exempt |-> ex]
         /\ value' = Returned(calculate_va_funding_fee(la, dp, ft, ex))
    /\ UNCHANGED get_rate_vars

(* loans, base rates down to zero (so that reduced rates reach zero and    *)
(* go below it) and terms, the term of no years included                   *)
BuydownLoanAmounts == { Dollars(200000), Dollars(400000) }
BuydownBaseRates == { 0, 100, 200, 300, 650, 700 }
BuydownTerms == { 0, 15, 30 }

ApplyBuydownScenarios ==
    /\ applied = NotApplied
    /\ \E la \in BuydownLoanAmounts, br \in BuydownBaseRates,
          ty \in BuydownTerms :
         /\ applied' = [f |-> "calculate_buydown_scenarios", loan_amount |-> la,
                        base_rate |-> br, term_years |-> ty]
         /\ value' = calculate_buydown_scenarios(la, br, ty)
    /\ UNCHANGED get_rate_vars

(* the amounts parse_currency_amount is applied to: a number, written as   *)
(* s and worth n/d, placed in a form [pre, post, m, e], the string         *)
(* pre s post that parse_currency_amount's docstring and the comments of   *)
(* its branches give the value n/d times m over e                          *)
CurrencyNumbers ==
    { [s |-> << "2", "0" >>, n |-> 20, d |-> 1],
      [s |-> << "1", ".", "5" >>, n |-> 15, d |-> 10],
      [s |-> << "5", "0", "0" >>, n |-> 500, d |-> 1] }
CurrencyForms ==
    {
      [pre |-> << >>, post |-> << >>, m |-> 1, e |-> 1],
      [pre |-> << "$" >>, post |-> << >>, m |-> 1, e |-> 1],
      [pre |-> << >>, post |-> << "k" >>, m |-> 1000, e |-> 1],
      [pre |-> << >>, post |-> << "K" >>, m |-> 1000, e |-> 1],
      [pre |-> << >>, post |-> << "m" >>, m |-> 1000000, e |-> 1],
      [pre |-> << " ", " " >>, post |-> << " " >>, m |-> 1, e |-> 1],
      [pre |-> << >>, post |-> << " ", "k" >>, m |-> 1000, e |-> 1],
      [pre |-> << >>, post |-> << " ", "t", "h", "o", "u", "s", "a", "n", "d" >>, m |-> 1000, e |-> 1],
      [pre |-> << >>, post |-> << " ", "G", "r", "a", "n", "d" >>, m |-> 1000, e |-> 1],
      [pre |-> << "$" >>, post |-> << " ", "t", "h", "o", "u", "s", "a", "n", "d", " ", "d", "o", "l", "l", "a", "r", "s" >>, m |-> 1000, e |-> 1],
      [pre |-> << >>, post |-> << " ", "m" >>, m |-> 1000000, e |-> 1],
      [pre |-> << >>, post |-> << " ", "m", "i", "l", "l", "i", "o", "n" >>, m |-> 1000000, e |-> 1],
      [pre |-> << >>, post |-> << " ", "m", "i", "l" >>, m |-> 1000000, e |-> 1],
      [pre |-> << >>, post |-> << "%" >>, m |-> 1, e |-> 100],
      [pre |-> << >>, post |-> << " ", "%", " ", "d", "o", "w", "n" >>, m |-> 1, e |-> 100],
      [pre |-> << >>, post |-> << "k", "%" >>, m |-> 1, e |-> 100],
      [pre |-> << >>, post |-> << " ", "m", "i", "l", "l", "i", "o", "n", " ", "%" >>, m |-> 1, e |-> 100],
      [pre |-> << >>, post |-> << "%", " ", "o", "f", " ", "5", "0", "0", "k" >>, m |-> 1, e |-> 100],
      [pre |-> << "$" >>, post |-> << "m", " ", "%" >>, m |-> 1, e |-> 100]
    }
FormString(num, form) == form.pre \o num.s \o form.post

(* numbers, the written forms, "$500,000", and what is no amount: strings  *)
(* without a number, with and without "%", a negative number, a string    *)
(* with a sign, and an object that is neither number nor string            *)
CurrencyValues ==
    { ArgNum(20000, 1), ArgNum(15, 10), ArgNum(0, 1), ArgNum(-5000, 1) }
    \cup { ArgStr(FormString(num, form)) : num \in CurrencyNumbers, form \in CurrencyForms }
    \cup { ArgStr(<< "$", "5", "0", "0", ",", "0", "0", "0" >>), ArgStr(<< "t", "b", "d" >>), ArgStr(<< >>), ArgStr(<< "%" >>), ArgStr(<< "a", "b", "c", "%" >>),
           ArgStr(<< "f", "i", "v", "e", " ", "g", "r", "a", "n", "d" >>), ArgStr(<< "k" >>), ArgStr(<< "-", "5", "0", "0", "0" >>), ArgStr(<< "1", ".", "2", ".", "3" >>),
           [kind |-> "other", n |-> 0, d |-> 1, s |-> << >>] }

ApplyParseCurrencyAmount ==
    /\ applied = NotApplied
    /\ \E v \in CurrencyValues :
         /\ applied' = [f |-> "parse_currency_amount", value |-> v]
         /\ value' = LET parsed == parse_currency_amount(v)
                     IN  IF parsed.ok THEN Returned([n |-> parsed.n, d |-> parsed.d])
                         ELSE Raises
    /\ UNCHANGED get_rate_vars

(* loans, rates from zero up and terms, the term of no years included      *)
PaymentLoanAmounts == { Dollars(0), Dollars(50000), Dollars(400000) }
PaymentRates == { 0, 25, 700, 900 }
PaymentTerms == { 0, 10, 15, 30 }

ApplyMonthlyPiPayment ==
    /\ applied = NotApplied
    /\ \E la \in PaymentLoanAmounts, ar \in PaymentRates, ty \in PaymentTerms :
         /\ applied' = [f |-> "calculate_monthly_pi_payment", loan_amount |-> la,
                        annual_rate |-> ar, term_years |-> ty]
         /\ value' = IF PaymentRaises(ty * 12) THEN Raises
                     ELSE Returned(calculate_monthly_pi_payment(la, ar, ty))
    /\ UNCHANGED get_rate_vars

ApplySecondLienPayment ==
    /\ applied = NotApplied
    /\ \E la \in PaymentLoanAmounts, ar \in PaymentRates, ty \in PaymentTerms,
          lt \in {"interest_only", "fully_amortized"} :
         /\ applied' = [f |-> "calculate_second_lien_payment",
                        second_lien_amount |-> la, second_lien_rate |-> ar,
                        second_lien_type |-> lt, second_lien_term_years |-> ty]
         /\ value' = LET second == calculate_second_lien_payment(la, ar, lt, ty)
                     IN  IF second.raises THEN Raises
                         ELSE Returned(second.payment)
    /\ UNCHANGED get_rate_vars

(***************************************************************************)
(* calculate_monthly_premium, in cents; interest in hundredths of a        *)
(* percent and mip in basis points, so a month's share of either is the    *)
(* amount times the rate over 120000.                                      *)
(***************************************************************************)
(* round(num / den, 0) for num >= 0: the nearest integer, a tie to the     *)
(* even one when base + quotient is to be even                             *)
RoundDiv(base, num, den) ==
    LET q == num \div den
        r == num % den
    IN  IF 2 * r > den THEN base + q + 1
        ELSE IF 2 * r < den THEN base + q
        ELSE IF (base + q) % 2 = 0 THEN base + q ELSE base + q + 1

(* round(amount * rate / den), split so that no product leaves 32 bits *)
MulDivRound(amount, rate, den) ==
    RoundDiv((amount \div den) * rate, (amount % den) * rate, den)

(* the largest p from base up, in steps of step and its quarters, with     *)
(* 2 p - 1 <= 2 payment: the payment to the nearest cent; q is the upper   *)
(* bound of (1 + r)^n                                                      *)
RECURSIVE NearestCent(_, _, _, _, _)
NearestCent(q, amount, rate, base, step) ==
    IF step = 0 THEN base
    ELSE LET d == Cardinality({ k \in 1..3 :
                     AtLeastWith(q, amount, rate, 2, 2 * (base + k * step) - 1) })
         IN  NearestCent(q, amount, rate, base + d * step, step \div 4)

(* the payment is sought up to this many cents above the month's interest, *)
(* in steps of a quarter of it                                             *)
PaymentSpan == 1048576

(* lines 352-362: payment = round(payment, 2); it lies between the month's *)
(* interest and that plus amount / term_months, which is below PaymentSpan *)
RoundedPayment(amount, rate, term_months) ==
    IF rate > 0
    THEN LET q == GrowthCeil(rate, term_months)
         IN  (* q is worked out before the payment is sought *)
             IF Len(q) = 0 THEN 0
             ELSE NearestCent(q, amount, rate,
                              (amount \div 120000) * rate
                                  + ((amount % 120000) * rate) \div 120000,
                              PaymentSpan \div 4)
    ELSE RoundDiv(0, amount, term_months)

(* lines 364-381: the loop "for month in range(1, 12)"; balances holds the *)
(* balance of month 0 and of every month paid so far                       *)
RECURSIVE Paydown(_, _, _)
Paydown(balances, payment, rate) ==
    IF Len(balances) = 12 THEN balances
    ELSE LET balance == balances[Len(balances)]
             interest_payment == MulDivRound(balance, rate, 120000)
             principal_payment == payment - interest_payment
         IN  Paydown(Append(balances, balance - principal_payment), payment, rate)

(* the flat premium on the whole amount, whatever the term *)
calculate_monthly_premium_Flat(interest, orig_mtg, p_i, upfront, mip, term_years) ==
    MulDivRound(orig_mtg, mip, 120000)

(* lines 324-397; the ZeroDivisionError of a term of no months is caught   *)
(* and the flat premium of line 397 returned                               *)
calculate_monthly_premium(interest, orig_mtg, p_i, upfront, mip, term_years) ==
    IF PaymentRaises(term_years * 12)
    THEN MulDivRound(orig_mtg, mip, 120000)
    ELSE LET payment == RoundedPayment(orig_mtg, interest, term_years * 12)
             b == Paydown(<< orig_mtg >>, payment, interest)
             total_balance == b[1] + b[2] + b[3] + b[4] + b[5] + b[6]
                                  + b[7] + b[8] + b[9] + b[10] + b[11] + b[12]
             avg_balance == RoundDiv(0, total_balance, 12)
         IN  MulDivRound(avg_balance, mip, 120000)

(* base loans, rates from zero up, the two premium rates of a long term,   *)
(* terms with the term of no years, and two pairs of the unused arguments  *)
PremiumLoanAmounts == { Dollars(200000), Dollars(482500) }
PremiumRates == { 0, 700 }
PremiumMips == { 50, 55 }
PremiumTerms == { 0, 15, 30 }
PremiumUnused == { [p_i |-> 0, upfront |-> 0], [p_i |-> Dollars(3000), upfront |-> 175] }

ApplyMonthlyPremium ==
    /\ applied = NotApplied
    /\ \E om \in PremiumLoanAmounts, ir \in PremiumRates, mp \in PremiumMips,
          ty \in PremiumTerms, un \in PremiumUnused :
         /\ applied' = [f |-> "calculate_monthly_premium", interest |-> ir,
                        orig_mtg |-> om, p_i |-> un.p_i, upfront |-> un.upfront,
                        mip |-> mp, term_years |-> ty]
         /\ value' = Returned(calculate_monthly_premium(ir, om, un.p_i, un.upfront,
                                                        mp, ty))
    /\ UNCHANGED get_rate_vars

(* pages of the rate source: cells with one and with two rates, cells that *)
(* repeat a marker, a cell with no rate, one with a token that is no       *)
(* number, before and after both rates were found                          *)
RatePages ==
    { << >>,
      << << Marker("30"), Word, Pct(650) >>, << Marker("15"), Word, Pct(575) >> >>,
      << << Marker("15"), Pct(575) >>, << Word >>, << Marker("30"), Pct(650) >> >>,
      << << Marker("30"), Pct(650) >>, << Marker("30"), Pct(999) >>,
         << Marker("15"), Pct(575) >>, << Marker("15"), Pct(100) >> >>,
      << << Marker("30"), Pct(650), Word, Pct(675) >>, << Marker("15"), Pct(575) >> >>,
      << << Marker("30"), Word >>, << Marker("30"), Pct(650) >> >>,
      << << Marker("30"), Pct(650) >>, << Marker("15"), Pct(575) >>,
         << Marker("30"), BadPct >> >>,
      << << Marker("30"), Word, BadPct >> >> }

ApplyParseFreddieMacRates ==
    /\ applied = NotApplied
    /\ \E tds \in RatePages :
         /\ applied' = [f |-> "parse_freddie_mac_rates", tds |-> tds]
         /\ value' = LET years_to_rate ==
                             parse_freddie_mac_rates(HttpResponse(200, tds))
                     IN  IF years_to_rate.ok
                         THEN Returned([r30 |-> years_to_rate.r30,
                                        r15 |-> years_to_rate.r15])
                         ELSE Raises
    /\ UNCHANGED get_rate_vars

FunctionsNext ==
    \/ ApplyVaFundingFee
    \/ ApplyBuydownScenarios
    \/ ApplyParseCurrencyAmount
    \/ ApplyMonthlyPiPayment
    \/ ApplySecondLienPayment
    \/ ApplyParseFreddieMacRates
    \/ ApplyMonthlyPremium

Functions == Init /\ [][FunctionsNext]_vars


(***************************************************************************)
(* What a finished or running call shows of its request and its progress.  *)
(***************************************************************************)

(* lines 721-726 have accepted the loan type *)
TypeAccepted ==
    /\ pc \notin {"start", "parse", "require_amount", "normalize_loan_type"}
    /\ ret.msg \notin {"invalid_input_format", "price_or_amount_required",
                       "invalid_loan_type"}

(* the loan type the caller asked for *)
RequestedType ==
    IF loan_type_arg.kind = "enum" THEN loan_type_arg.v
    ELSE validate_normalize_loan_type(loan_type_arg).v

(* the call has run the Jumbo promotion of lines 790-792 *)
Promoted ==
    \/ pc \in {"validate_loan_limits", "validate_cltv", "validate_ltv",
               "get_interest_rate", "prepare_costs", "first_lien_payment",
               "mortgage_insurance", "second_lien_payment", "build_report",
               "finish"}
    \/ /\ pc = "done"
       /\ \/ ret.kind = "report"
          \/ ret.msg \in {"exceeds_limit", "cltv_exceeds_105",
                          "ltv_exceeds_conventional_consider_fha",
                          "ltv_exceeds_fha", "ZeroDivisionError"}

(* the call has run the CLTV check of lines 807-809 and passed it *)
StructureChecked ==
    \/ pc \in {"validate_ltv", "get_interest_rate", "prepare_costs",
               "first_lien_payment", "mortgage_insurance",
               "second_lien_payment", "build_report", "finish"}
    \/ /\ pc = "done"
       /\ \/ ret.kind = "report"
          \/ ret.msg \in {"ltv_exceeds_conventional_consider_fha",
                          "ltv_exceeds_fha", "ZeroDivisionError"}

(* lines 829-840 have added the financed fee to loan_amount *)
CostsPrepared ==
    \/ pc \in {"first_lien_payment", "mortgage_insurance",
               "second_lien_payment", "build_report", "finish"}
    \/ pc = "done" /\ (ret.kind = "report" \/ ret.msg = "ZeroDivisionError")

(* the first-lien amount before any financed fee *)
FirstLien == IF CostsPrepared THEN base_loan_amount ELSE loan_amount.v

SecondLien == IF HasSecondLien THEN second_lien_amount.v ELSE 0

(* num / den > pm / 1000, exactly *)
RatioGt(num, den, pm) ==
    LET a == LongDiv3(num, den)
    IN  a.k > pm \/ (a.k = pm /\ a.r > 0)

(* some amount argument fails to parse (the ValueError of lines 681-716) *)
ParseFails ==
    \E f \in DOMAIN args : args[f].kind # "none" /\ ~ParseArgs(args)[f].ok

(* the report is complete: it ends with the closing tag *)
ReportComplete == result # << >> /\ result[Len(result)] = "end"

(***************************************************************************)
(* The properties of get_rate.                                             *)
(***************************************************************************)

(* C1: with the first-lien LTV taken as loan_amount / home_price, a call   *)
(* that passed the structure checks and raised nothing treats the LTV      *)
(* thresholds as follows: a Conventional request within the conforming     *)
(* limit with LTV in (95%, 96.5%] is reported as FHA; a Conventional       *)
(* request with LTV above 96.5% gets the error that recommends FHA; an FHA *)
(* request with LTV above 96.5% gets the FHA LTV error; and no report of   *)
(* a Conventional loan has an LTV above 95%.                               *)
C1_LtvPolicy ==
    (/\ pc = "done" /\ TypeAccepted /\ StructureChecked
     /\ ret.kind # "raised" /\ home_price.v > 0)
    => LET over95  == RatioGt(FirstLien, home_price.v, 950)
           over965 == RatioGt(FirstLien, home_price.v, 965)
           conforming == RequestedType = "conventional" /\ loan_type # "jumbo"
       IN  /\ (conforming /\ over95 /\ ~over965)
                => (ret.kind = "report" /\ loan_type = "fha")
           /\ (conforming /\ over965)
                => ret = ErrorMessage("ltv_exceeds_conventional_consider_fha")
           /\ (RequestedType = "fha" /\ over965)
                => ret = ErrorMessage("ltv_exceeds_fha")
           /\ (ret.kind = "report" /\ loan_type = "conventional") => ~over95

(* C2: a Conventional request for 1 to 4 units whose first-lien amount     *)
(* exceeds the conforming limit of its unit count is a Jumbo loan from the *)
(* promotion step on, is never rejected by the loan-limit check and is     *)
(* reported as Jumbo; at or below the limit it is never a Jumbo loan.      *)
(* The escalation decision is the same for every amount on either side of  *)
(* the limit, so no larger amount reverts to Conventional.                 *)
C2_JumboEscalation ==
    (Promoted /\ TypeAccepted /\ RequestedType = "conventional" /\ units \in 1..4)
    => IF FirstLien > CONVENTIONAL_LOAN_LIMITS[units]
       THEN loan_type = "jumbo" /\ ret.msg # "exceeds_limit"
       ELSE loan_type # "jumbo"

(* a Conventional request above the conforming limit is reported as Jumbo *)
C2_Witness ==
    /\ pc = "done" /\ ret.kind = "report"
    /\ RequestedType = "conventional" /\ loan_type = "jumbo"
    /\ FirstLien > CONVENTIONAL_LOAN_LIMITS[units]

(* C3: the loan-limit check, for 1 to 4 units, ends the call with the      *)
(* limit error naming the amount and the limit exactly when the loan type  *)
(* at the check is Conventional or FHA and the first-lien amount exceeds   *)
(* that type's limit for the unit count; it lets every Jumbo and VA amount *)
(* through, and no other step produces the limit error.                    *)
C3_LimitCheck ==
    [][ /\ (pc = "validate_loan_limits" /\ units \in 1..4)
            => LET limit == IF loan_type = "conventional"
                            THEN CONVENTIONAL_LOAN_LIMITS[units]
                            ELSE FHA_LOAN_LIMITS[units]
               IN  IF loan_type \in {"conventional", "fha"} /\ loan_amount.v > limit
                   THEN ret' = LimitMessage(loan_amount.v, limit) /\ pc' = "done"
                   ELSE ret' = ret /\ pc' = "validate_cltv"
        /\ (ret'.msg = "exceeds_limit" /\ ret.msg # "exceeds_limit")
            => (pc = "validate_loan_limits" /\ loan_type \in {"conventional", "fha"})
      ]_vars

(* an FHA request above the FHA limit of its unit count is rejected *)
C3_Witness ==
    /\ pc = "done" /\ ret.msg = "exceeds_limit"
    /\ RequestedType = "fha" /\ units \in 1..4
    /\ ret.amount = loan_amount.v /\ ret.limit = FHA_LOAN_LIMITS[units]
    /\ ret.amount > ret.limit

(* C4: every call ends by returning a complete report or an error message; *)
(* no exception leaves get_rate.                                           *)
C4_TotalOutcome ==
    pc = "done"
    => /\ ret.kind \in {"report", "error"}
       /\ ret.kind = "report" => ReportComplete

(* C5: every failed calculation returns a mapping with the key "error".    *)
C5_ErrorMapping ==
    (pc = "done" /\ ret.kind = "error") => ret.shape = "dict"

(* C5: every value get_rate returns is a plain string: an error is one of  *)
(* its error messages, never a mapping with the key "error", and a success *)
(* is the complete report; an amount that cannot be parsed ends the call   *)
(* with the input-format message.                                          *)
C5_ErrorString ==
    pc = "done"
    => /\ ret.kind = "error"
            => /\ ret.shape = "str"
               /\ ret.msg \in {"invalid_input_format", "price_or_amount_required",
                               "invalid_loan_type", "invalid_second_lien_type",
                               "negative_down_payment", "exceeds_limit",
                               "cltv_exceeds_105",
                               "ltv_exceeds_conventional_consider_fha",
                               "ltv_exceeds_fha"}
       /\ ret.kind = "report" => (ret.shape = "str" /\ ReportComplete)
       /\ ParseFails => ret = ErrorMessage("invalid_input_format")

(* a call with an unparseable amount has returned its error *)
C5_Witness == pc = "done" /\ ParseFails /\ ret.kind = "error"

(* the rate source failed: the request raised, the status is not 200, or   *)
(* the page has no cell with a term marker                                 *)
SourceFailed(h) ==
    \/ h.raised
    \/ h.status # 200
    \/ ~\E i \in 1..Len(h.tds) : HasMarker(h.tds[i], "30") \/ HasMarker(h.tds[i], "15")

(* C6: when no rate is supplied and the rate source fails in any way       *)
(* (network error, non-200 response, a page without the rate cells), the   *)
(* rate used is the static fallback of 7.5 and the failure is never        *)
(* turned into an error.                                                   *)
C6_FetchFallback ==
    (fetches > 0 /\ ~rate_arg.set /\ SourceFailed(http))
    => (annual_interest_rate = Some(750) /\ ret.kind # "error")

(* C7: one call asks the rate source at most once; a call that has ended   *)
(* asked it zero times when annual_interest_rate was supplied or the call  *)
(* ended in a parse or validation error, and exactly once otherwise.       *)
C7_FetchCount ==
    /\ fetches <= 1
    /\ pc = "done"
         => fetches = IF rate_arg.set \/ ret.kind = "error" THEN 0 ELSE 1

(* C8: in every report the monthly mortgage insurance is zero unless the   *)
(* final loan type is FHA, or it is Conventional with a first-lien LTV     *)
(* (first lien / home price) above 80%: VA and Jumbo loans carry none, and *)
(* a Conventional loan at or below 80% carries none whatever its second    *)
(* lien and combined LTV.                                                  *)
C8_MiGate ==
    (pc = "done" /\ ret.kind = "report")
    => LET over80 == RatioGt(base_loan_amount, home_price.v, 800)
       IN  /\ InsuranceCharged(monthly_mi)
                => (loan_type = "fha" \/ (loan_type = "conventional" /\ over80))
           /\ loan_type \in {"va", "jumbo"} => monthly_mi = NoInsurance
           /\ (loan_type = "conventional" /\ ~over80) => monthly_mi = NoInsurance

(* a Conventional report at 80% LTV with a second lien that takes the      *)
(* combined LTV above 80%, and no mortgage insurance                       *)
C8_Witness ==
    /\ pc = "done" /\ ret.kind = "report"
    /\ loan_type = "conventional" /\ HasSecondLien
    /\ ~RatioGt(base_loan_amount, home_price.v, 800)
    /\ RatioGt(base_loan_amount + SecondLien, home_price.v, 800)
    /\ monthly_mi = NoInsurance

(* the fees and the insurance of a report are those of its loan type *)
UsesFinalType ==
    /\ monthly_mi.f = "mip" <=> loan_type = "fha"
    /\ fha_upfront_mip > 0 <=> loan_type = "fha"
    /\ monthly_mi.f = "pmi" => loan_type = "conventional"
    /\ va_funding_fee > 0 => loan_type = "va"

(* C9: after normalization the loan type changes at most once in a call,   *)
(* and only from the requested Conventional to Jumbo (promotion step) or   *)
(* to FHA (LTV policy); a request for FHA, VA or Jumbo keeps its type; and *)
(* from the rate step on the type is fixed, so the rate, the fees, the     *)
(* insurance and the report are those of the type after the transition.    *)
C9_TypeTransitions ==
    [][ /\ (pc # "normalize_loan_type" /\ loan_type' # loan_type)
            => /\ pc \in {"promote_jumbo", "validate_ltv"}
               /\ loan_type = "conventional" /\ RequestedType = "conventional"
               /\ loan_type' \in {"jumbo", "fha"}
        /\ pc \in {"get_interest_rate", "prepare_costs", "first_lien_payment",
                   "mortgage_insurance", "second_lien_payment", "build_report",
                   "finish", "done"}
            => loan_type' = loan_type
        /\ (pc' = "done" /\ ret'.kind = "report") => UsesFinalType'
      ]_vars

(* a Conventional request that the LTV policy moved to FHA is reported     *)
(* with the FHA fee and insurance                                          *)
C9_Witness ==
    /\ pc = "done" /\ ret.kind = "report"
    /\ RequestedType = "conventional" /\ loan_type = "fha"
    /\ fha_upfront_mip > 0 /\ monthly_mi.f = "mip"

(* C10: with CLTV = (first lien + second lien) / home_price, every call    *)
(* that reaches the CLTV check with a CLTV above 105% ends with the CLTV   *)
(* error; no report has a CLTV above 105%.                                 *)
C10_CltvLimit ==
    (/\ pc = "done" /\ home_price.v > 0 /\ ret.kind # "raised"
     /\ StructureChecked \/ ret.msg = "cltv_exceeds_105"
     /\ RatioGt(FirstLien + SecondLien, home_price.v, 1050))
    => ret = ErrorMessage("cltv_exceeds_105")

(* neither home_price nor loan_amount was passed *)
NeitherSupplied ==
    args.home_price.kind = "none" /\ args.loan_amount.kind = "none"

(* C11: a call whose supplied amounts all parse ends with the "Either      *)
(* home_price or loan_amount must be provided" message exactly when        *)
(* neither of the two was supplied; such a call has normalized no loan     *)
(* type, structured no loan, asked for no rate and computed no cost.       *)
C11_AmountRequired ==
    (pc = "done" /\ ~ParseFails)
    => /\ NeitherSupplied <=> ret = ErrorMessage("price_or_amount_required")
       /\ NeitherSupplied
            => /\ loan_type_arg = EnumArg("conventional") /\ loan_type = "conventional"
               /\ second_lien_type = "interest_only" /\ units = 1
               /\ ~home_price.set /\ ~loan_amount.set
               /\ calculated_ltv = 0 /\ calculated_cltv = 0
               /\ fetches = 0 /\ ~annual_interest_rate.set
               /\ base_loan_amount = 0 /\ fha_upfront_mip = 0 /\ va_funding_fee = 0
               /\ monthly_principal_interest = NoPayment
               /\ monthly_mi = NoInsurance
               /\ total_monthly_payment = << >> /\ result = << >>

(* a call that passes a down payment but neither home_price nor           *)
(* loan_amount has ended with the message                                  *)
C11_Witness ==
    /\ pc = "done" /\ NeitherSupplied /\ ~ParseFails
    /\ args.down_payment.kind # "none"
    /\ ret = ErrorMessage("price_or_amount_required")

(* C12: calculate_va_funding_fee returns 0 for an exempt veteran whatever  *)
(* the loan amount, the down payment and the usage; otherwise it returns   *)
(* the loan amount times the rate of the usage (first-time 2.15%, 1.5%,    *)
(* 1.25%; subsequent 3.3%, 1.5%, 1.25%) and of the tier of the share       *)
(* down_payment / (loan_amount + down_payment): below 5%, from 5% up to    *)
(* but not including 10%, 10% or more.                                     *)
C12_VaFundingFee ==
    applied.f = "calculate_va_funding_fee"
    => LET total == applied.loan_amount + applied.down_payment
           (* the share in per mille, rounded down *)
           share == IF total > 0 THEN LongDiv3(applied.down_payment, total).k ELSE 0
           rate == IF share >= 100 THEN 125
                   ELSE IF share >= 50 THEN 150
                   ELSE IF applied.is_first_time THEN 215 ELSE 330
       IN  /\ value.ok
           /\ applied.is_exempt => value.v = 0
           /\ ~applied.is_exempt
                (* cents * 100 = dollars * basis points *)
                => value.v * 100 = (applied.loan_amount \div 100) * rate

(* a first-time, non-exempt veteran with exactly 5% down pays 1.5% *)
C12_Witness ==
    /\ applied.f = "calculate_va_funding_fee"
    /\ ~applied.is_exempt /\ applied.is_first_time
    /\ applied.down_payment > 0
    /\ 20 * applied.down_payment = applied.loan_amount + applied.down_payment
    /\ value.ok /\ value.v * 100 = (applied.loan_amount \div 100) * 150


(***************************************************************************)
(* C13: in what calculate_buydown_scenarios returns, each of the variants  *)
(* 3/1, 2/1 and 1/1 has a total_subsidy that is the sum of the             *)
(* annual_subsidy of its listed years, every listed year has an            *)
(* annual_subsidy of 12 times its monthly_savings, and the variant's       *)
(* base_payment is the payment of the Standard variant, which is the       *)
(* payment at the base rate.                                               *)
(***************************************************************************)
C13_BuydownSums ==
    (applied.f = "calculate_buydown_scenarios" /\ value.ok) =>
        LET standard == value.v["standard"]
        IN  /\ standard.rate = applied.base_rate
            /\ standard.payment =
                   calculate_monthly_pi_payment(applied.loan_amount,
                       applied.base_rate, applied.term_years)
            /\ \A variant \in {"3_1", "2_1", "1_1"} :
                 LET v == value.v[variant]
                     a == [ i \in 1..Len(v.years) |-> v.years[i].annual_subsidy ]
                 IN  /\ Len(v.years) \in 1..3
                     /\ v.total_subsidy =
                          IF Len(a) = 1 THEN Add(NoPayment, a[1])
                          ELSE IF Len(a) = 2 THEN Add(Add(NoPayment, a[1]), a[2])
                          ELSE Add(Add(Add(NoPayment, a[1]), a[2]), a[3])
                     /\ \A i \in 1..Len(v.years) :
                          v.years[i].annual_subsidy =
                              Mul(v.years[i].monthly_savings, 12)
                     /\ v.base_payment = standard.payment

(* a 3/1 buydown of a 7% loan over 30 years: three listed years            *)
C13_Witness ==
    /\ applied.f = "calculate_buydown_scenarios" /\ value.ok
    /\ applied.base_rate = 700 /\ applied.term_years = 30
    /\ Len(value.v["3_1"].years) = 3
    /\ value.v["3_1"].years[1].payment =
           Amortized(applied.loan_amount, 400, 360)
    /\ value.v["3_1"].base_payment = Amortized(applied.loan_amount, 700, 360)


(***************************************************************************)
(* C14: in every complete report the total monthly payment is the sum of   *)
(* the first-lien P&I, the second-lien payment, the monthly tax, the       *)
(* monthly insurance, the monthly MI and the HOA fee; the second-lien      *)
(* payment is zero when no second lien, or one of zero, is present; the    *)
(* monthly tax and insurance are the annual figures divided by 12.         *)
(***************************************************************************)
C14_TotalPayment ==
    ReportComplete =>
        /\ total_monthly_payment =
               << monthly_principal_interest, monthly_second_lien_payment,
                  monthly_tax, monthly_insurance, monthly_mi,
                  homeowners_association_fee >>
        /\ (~second_lien_amount.set \/ second_lien_amount.v = 0) =>
               monthly_second_lien_payment = NoPayment
        /\ monthly_tax = [f |-> "div", a |-> annual_property_tax.v, k |-> 12]
        /\ monthly_insurance =
               [f |-> "div", a |-> annual_home_insurance.v, k |-> 12]

(* a report with a second lien, mortgage insurance, an HOA fee and tax and *)
(* insurance as given                                                      *)
C14_Witness ==
    /\ ReportComplete
    /\ monthly_second_lien_payment # NoPayment
    /\ homeowners_association_fee = Dollars(250)
    /\ monthly_mi # NoInsurance
    /\ Len(total_monthly_payment) = 6


(***************************************************************************)
(* C15: the call with a home price of $500,000, 20% down, Conventional,    *)
(* one unit, 30 years and a rate of 7.0% given, nothing else supplied,     *)
(* ends in a report; the loan stays Conventional, the loan amount is       *)
(* $400,000, the LTV 80%, no insurance is charged, the annual tax is       *)
(* 0.65% and the annual insurance 0.2% of the home price, which is $270.83 *)
(* and $83.33 a month, the monthly P&I is within $0.01 of $2,661.21 and    *)
(* the total within $0.01 of $3,015.37.                                    *)
(***************************************************************************)
C15_Call ==
    /\ args.home_price = ArgStr(<< "5", "0", "0", "k" >>)
    /\ args.down_payment = ArgStr(<< "2", "0", "%" >>)
    /\ args.loan_amount = ArgNone /\ args.ltv = ArgNone
    /\ args.second_lien_amount = ArgNone
    /\ args.annual_property_tax = ArgNone
    /\ args.annual_home_insurance = ArgNone
    /\ loan_type_arg = EnumArg("conventional") /\ units = 1
    /\ rate_arg = Some(700) /\ loan_term_years = 30
    /\ homeowners_association_fee = 0

C15_Scenario ==
    (pc = "done" /\ C15_Call) =>
        /\ ReportComplete
        /\ loan_type = "conventional"
        /\ home_price = Some(Dollars(500000))
        /\ base_loan_amount = Dollars(400000)
        /\ loan_amount = Some(Dollars(400000))
        /\ calculated_ltv = 800
        /\ monthly_mi = NoInsurance
        /\ annual_property_tax = Some(Dollars(3250))
        /\ annual_home_insurance = Some(Dollars(1000))
        /\ monthly_tax.f = "div" /\ monthly_tax.k = 12
        /\ 2 * monthly_tax.a >= 2 * 12 * 27083 - 12
        /\ 2 * monthly_tax.a < 2 * 12 * 27083 + 12
        /\ monthly_insurance.f = "div" /\ monthly_insurance.k = 12
        /\ 2 * monthly_insurance.a >= 2 * 12 * 8333 - 12
        /\ 2 * monthly_insurance.a < 2 * 12 * 8333 + 12
        /\ monthly_principal_interest.f = "amortized"
        /\ AmortizedAtLeast(monthly_principal_interest.amount,
                            monthly_principal_interest.rate,
                            monthly_principal_interest.n, 1, 266121 - 1)
        /\ AmortizedAtMost(monthly_principal_interest.amount,
                           monthly_principal_interest.rate,
                           monthly_principal_interest.n, 1, 266121 + 1)
        /\ total_monthly_payment =
               << monthly_principal_interest, NoPayment, monthly_tax,
                  monthly_insurance, NoInsurance, 0 >>
        /\ AmortizedAtLeast(monthly_principal_interest.amount,
                            monthly_principal_interest.rate,
                            monthly_principal_interest.n, 12,
                            12 * (301537 - 1) - monthly_tax.a - monthly_insurance.a)
        /\ AmortizedAtMost(monthly_principal_interest.amount,
                           monthly_principal_interest.rate,
                           monthly_principal_interest.n, 12,
                           12 * (301537 + 1) - monthly_tax.a - monthly_insurance.a)

C15_Witness ==
    /\ pc = "done" /\ C15_Call /\ ReportComplete
    /\ monthly_principal_interest = Amortized(Dollars(400000), 700, 360)


(***************************************************************************)
(* C16: parse_currency_amount gives a number n the value float(n),         *)
(* "$500,000" the value 500000, a number with a glued k or m, or followed  *)
(* by a whole word of the thousands (k, thousand, grand) or the millions   *)
(* (m, million, mil), the number times 1,000 or 1,000,000, and every       *)
(* string with "%" in it its first number divided by 100, whatever suffix  *)
(* or word the string holds besides.                                       *)
(***************************************************************************)
C16_ParseForms ==
    applied.f = "parse_currency_amount" =>
        /\ applied.value.kind = "num" =>
             value = Returned([n |-> applied.value.n, d |-> applied.value.d])
        /\ applied.value = ArgStr(<< "$", "5", "0", "0", ",", "0", "0", "0" >>) =>
             value.ok /\ value.v.n = 500000 * value.v.d
        /\ \A num \in CurrencyNumbers, form \in CurrencyForms :
             applied.value = ArgStr(FormString(num, form)) =>
                 /\ value.ok
                 /\ value.v.n * (num.d * form.e) = (num.n * form.m) * value.v.d
                 /\ Contains(applied.value.s, "%") =>
                        value.v.n * (num.d * 100) = num.n * value.v.d

(* "20% of 500k" is 0.20                                                   *)
C16_Witness ==
    /\ applied.f = "parse_currency_amount"
    /\ applied.value = ArgStr(<< "2", "0", "%", " ", "o", "f", " ", "5", "0", "0", "k" >>)
    /\ value.ok /\ value.v.n * 100 = 20 * value.v.d


(***************************************************************************)
(* C17: parse_currency_amount returns a float that is not negative or      *)
(* raises ValueError, and it raises for every string without a digit,      *)
(* the strings with "%" and no digit among them.                           *)
(***************************************************************************)
C17_ParseTotal ==
    applied.f = "parse_currency_amount" =>
        /\ value.ok => value.v.n >= 0 /\ value.v.d > 0
        /\ (applied.value.kind = "str" /\ DigitPositions(applied.value.s) = {}) =>
               ~value.ok


(***************************************************************************)
(* C18: at an annual rate of exactly 0 and a term of n > 0 monthly         *)
(* payments the monthly payment on L is L / n: from                        *)
(* calculate_monthly_pi_payment, for the first lien of a get_rate report,  *)
(* from calculate_second_lien_payment for a fully amortized second lien,   *)
(* and for every year of a buydown variant whose reduced rate is 0.        *)
(***************************************************************************)
C18_ZeroRate ==
    /\ (/\ applied.f = "calculate_monthly_pi_payment"
        /\ applied.annual_rate = 0 /\ applied.term_years > 0) =>
           value = Returned([f |-> "straight_line", amount |-> applied.loan_amount,
                             rate |-> 0, n |-> applied.term_years * 12])
    /\ (/\ applied.f = "calculate_second_lien_payment"
        /\ applied.second_lien_type = "fully_amortized"
        /\ applied.second_lien_rate = 0
        /\ applied.second_lien_term_years > 0) =>
           value = Returned([f |-> "straight_line",
                             amount |-> applied.second_lien_amount, rate |-> 0,
                             n |-> applied.second_lien_term_years * 12])
    /\ (applied.f = "calculate_buydown_scenarios" /\ applied.term_years > 0) =>
           /\ value.ok
           /\ \A variant \in {"3_1", "2_1", "1_1"} :
                \A i \in 1..Len(value.v[variant].years) :
                    value.v[variant].years[i].rate = 0 =>
                        value.v[variant].years[i].payment =
                            [f |-> "straight_line", amount |-> applied.loan_amount,
                             rate |-> 0, n |-> applied.term_years * 12]
    /\ (/\ pc \in {"mortgage_insurance", "second_lien_payment", "build_report", "done"}
        /\ monthly_principal_interest # NoPayment
        /\ annual_interest_rate = Some(0)) =>
           /\ loan_term_years > 0
           /\ monthly_principal_interest =
                  [f |-> "straight_line", amount |-> loan_amount.v, rate |-> 0,
                   n |-> loan_term_years * 12]

(* the third year of a 3/1 buydown of a 1% loan is at 0%                   *)
C18_Witness ==
    /\ applied.f = "calculate_buydown_scenarios"
    /\ applied.base_rate = 100 /\ applied.term_years = 30 /\ value.ok
    /\ value.v["3_1"].years[3].rate = 0
    /\ value.v["3_1"].years[3].payment = StraightLine(applied.loan_amount, 360)


(***************************************************************************)
(* C19: in every complete report whose loan type is FHA, requested or      *)
(* reached from Conventional, the first-lien loan amount before the        *)
(* upfront MIP is at most the FHA limit of the unit count.                 *)
(***************************************************************************)
C19_FhaWithinLimit ==
    (ReportComplete /\ loan_type = "fha") =>
        /\ units \in 1..4
        /\ base_loan_amount <= FHA_LOAN_LIMITS[units]


(***************************************************************************)
(* C20: in every complete report the first-lien loan amount before fees,   *)
(* the down payment and the second-lien amount (zero when there is none)   *)
(* add up to the home price.                                               *)
(***************************************************************************)
C20_StructureBalance ==
    ReportComplete =>
        base_loan_amount + down_payment.v
            + (IF second_lien_amount.set THEN second_lien_amount.v ELSE 0)
        = home_price.v


(***************************************************************************)
(* C21: the checks of get_rate come in the order parsing of the amounts,   *)
(* presence of price or amount, loan type, second-lien type, negative      *)
(* down payment, loan limit, CLTV above 105%, LTV policy; a call that      *)
(* violates several of them ends with the error of the first one it        *)
(* violates.  A check counts as violated when its test, made on the        *)
(* arguments and the structure as resolved, fails: the first four on the   *)
(* arguments, the others once the four before them are passed.             *)
(***************************************************************************)
C21_Rank(msg) ==
    CASE msg = "invalid_input_format" -> 1
      [] msg = "price_or_amount_required" -> 2
      [] msg = "invalid_loan_type" -> 3
      [] msg = "invalid_second_lien_type" -> 4
      [] msg = "negative_down_payment" -> 5
      [] msg = "exceeds_limit" -> 6
      [] msg = "cltv_exceeds_105" -> 7
      [] OTHER -> 8

C21_ArgumentsViolate ==
    {k \in 1..4 :
        \/ k = 1 /\ ParseFails
        \/ k = 2 /\ NeitherSupplied
        \/ k = 3 /\ loan_type_arg.kind # "enum"
                 /\ ~validate_normalize_loan_type(loan_type_arg).ok
        \/ k = 4 /\ second_lien_type_arg.kind = "str"
                 /\ ~NormalizeSecondLienType(second_lien_type_arg.s).ok}

(* the rounded ratios of lines 799-805, taken from the variables once      *)
(* they are computed and from the resolved amounts when the call ended     *)
(* in the limit lookup                                                     *)
C21_Ratios ==
    IF ret = Raised("IndexError") /\ home_price.v > 0
    THEN [ltv |-> Round3(loan_amount.v, home_price.v),
          cltv |-> Round3(loan_amount.v + SecondLien, home_price.v)]
    ELSE [ltv |-> calculated_ltv, cltv |-> calculated_cltv]

C21_StructureViolates(ratios) ==
    {k \in 5..8 :
        \/ k = 5 /\ down_payment.v < 0
        \/ k = 6 /\ down_payment.v >= 0
                 /\ ret.kind = "error"
                 /\ loan_type \in {"conventional", "fha"}
                 /\ IndexOk(units - 1)
                 /\ loan_amount.v > ListGet(LOAN_LIMITS(loan_type), units - 1)
        \/ k = 7 /\ down_payment.v >= 0 /\ ratios.cltv > 1050
        \/ k = 8 /\ down_payment.v >= 0
                 /\ (ret = Raised("IndexError") => loan_type = "fha")
                 /\ LtvPolicy(loan_type, ratios.ltv).error # ""}

C21_Violated ==
    IF C21_ArgumentsViolate # {} THEN C21_ArgumentsViolate
    ELSE C21_StructureViolates(C21_Ratios)

C21_EarliestError ==
    (pc = "done" /\ Cardinality(C21_Violated) >= 2) =>
        /\ ret.kind = "error"
        /\ \A k \in C21_Violated : C21_Rank(ret.msg) <= k
        /\ C21_Rank(ret.msg) \in C21_Violated


(***************************************************************************)
(* C22: a call with a home price and neither down payment nor target LTV   *)
(* resolves a down payment of 3.5% of the home price for FHA, of 0 for VA  *)
(* and for USDA, and of 20% for every other loan type, less the            *)
(* second-lien amount and not below zero.                                  *)
(***************************************************************************)
C22_Usda == loan_type_arg = StrArg(<< "u", "s", "d", "a" >>)

C22_Share ==
    IF C22_Usda THEN 0
    ELSE IF RequestedType = "fha" THEN 350
    ELSE IF RequestedType = "va" THEN 0
    ELSE 2000

C22_DefaultDownPayment ==
    (/\ pc = "done"
     /\ ~ParseFails
     /\ args.home_price.kind # "none"
     /\ args.down_payment.kind = "none" /\ args.ltv.kind = "none"
     /\ loan_type_arg.kind = "str"
     /\ ret.msg # "invalid_second_lien_type") =>
        /\ down_payment.set
        /\ down_payment.v =
               Max(0, MulBp(home_price.v, C22_Share)
                      - (IF second_lien_amount.set THEN second_lien_amount.v ELSE 0))


(***************************************************************************)
(* C23: with a target LTV, a value above 1 is a percentage; the first lien *)
(* is home_price x ltv whatever loan amount and down payment were passed,  *)
(* the down payment is home_price less the first lien less the second      *)
(* lien, and a successful report carries the target as its first-lien LTV. *)
(***************************************************************************)
C23_Target ==
    IF args.ltv.n > args.ltv.d
    THEN (args.ltv.n * 100) \div args.ltv.d
    ELSE (args.ltv.n * 10000) \div args.ltv.d

C23_Handled ==
    /\ pc = "done"
    /\ args.ltv.kind = "num"
    /\ ret.msg \notin { "invalid_input_format", "price_or_amount_required",
                        "invalid_loan_type", "invalid_second_lien_type" }

C23_TargetLtv ==
    C23_Handled =>
        /\ FirstLien = MulBp(home_price.v, C23_Target)
        /\ down_payment = Some(home_price.v - FirstLien - SecondLien)
        /\ (ret.kind = "report" /\ home_price.v > 0) =>
               calculated_ltv * 10 = C23_Target

C23_Witness ==
    /\ C23_Handled
    /\ ret.kind = "report"
    /\ args.ltv = ArgNum(96, 1)
    /\ args.down_payment # ArgNone
    /\ calculated_ltv = 960


(***************************************************************************)
(* C24: a call with a loan amount and no home price takes the home price   *)
(* as the loan amount plus the down payment; without a down payment that   *)
(* is 25% of the loan amount for every loan type, and the first-lien LTV   *)
(* of the report is 80%.                                                   *)
(***************************************************************************)
C24_Derived ==
    /\ pc = "done"
    /\ args.loan_amount.kind # "none" /\ args.home_price.kind = "none"
    /\ ret.msg \notin { "invalid_input_format", "price_or_amount_required",
                        "invalid_loan_type", "invalid_second_lien_type" }

C24_Supplied(f) == AsCents(parse_currency_amount(args[f]))

C24_DerivedHomePrice ==
    C24_Derived =>
        LET la == C24_Supplied("loan_amount")
        IN  IF args.down_payment.kind = "none"
            THEN /\ home_price.v = la + MulBp(la, 2500)
                 /\ ret.kind = "report" => calculated_ltv = 800
            ELSE IF IsPercentage(args.down_payment)
            THEN \* the share p of the home price: home = loan + p home
                 home_price.v - MulBp(home_price.v,
                                      AsBp(parse_currency_amount(args.down_payment)))
                     = la
            ELSE home_price.v = la + C24_Supplied("down_payment")


(***************************************************************************)
(* C25: a down payment passed as a percentage string resolves to that      *)
(* share of the resolved home price, whether the home price was passed or  *)
(* derived from the loan amount.                                           *)
(***************************************************************************)
C25_PercentageDownPayment ==
    (/\ pc = "done"
     /\ IsPercentage(args.down_payment)
     /\ args.ltv.kind = "none"
     /\ ret.msg \notin { "invalid_input_format", "price_or_amount_required",
                         "invalid_loan_type", "invalid_second_lien_type" }) =>
        down_payment =
            Some(MulBp(home_price.v, AsBp(parse_currency_amount(args.down_payment))))


(***************************************************************************)
(* C26: a call whose resolved down payment is below zero ends with the     *)
(* 'down payment cannot be negative' error, and no report is returned with *)
(* a negative down payment.                                                *)
(***************************************************************************)
C26_Resolved ==
    /\ pc = "done"
    /\ ret.msg \notin { "invalid_input_format", "price_or_amount_required",
                        "invalid_loan_type", "invalid_second_lien_type" }

C26_NegativeDownPayment ==
    /\ (C26_Resolved /\ down_payment.v < 0) =>
           ret = ErrorMessage("negative_down_payment")
    /\ (pc = "done" /\ ret.kind = "report") => down_payment.v >= 0

C26_Witness ==
    /\ C26_Resolved
    /\ args.ltv.kind = "num" /\ args.second_lien_amount.kind = "num"
    /\ down_payment.v < 0
    /\ ret = ErrorMessage("negative_down_payment")


(***************************************************************************)
(* C27: the financed fee enters the first-lien amount once (FHA: the base  *)
(* amount and 1.75% of it; VA: the base amount and the funding fee), the   *)
(* first-lien payment is computed on the amount with the fee, and the      *)
(* buydown scenarios of every loan type and the FHA monthly premium are    *)
(* computed on the base amount.                                            *)
(***************************************************************************)
C27_Base ==
    IF args.ltv.kind = "num" THEN MulBp(home_price.v, C23_Target)
    ELSE IF args.loan_amount.kind # "none" THEN C24_Supplied("loan_amount")
    ELSE home_price.v - down_payment.v
             - (IF second_lien_amount.set THEN second_lien_amount.v ELSE 0)

C27_Fee ==
    IF loan_type = "fha" THEN MulBp(C27_Base, 175)
    ELSE IF loan_type = "va"
    THEN calculate_va_funding_fee(C27_Base, down_payment.v, va_first_time, va_exempt)
    ELSE 0

C27_FinancedOnce ==
    (pc = "done" /\ ret.kind = "report") =>
        /\ loan_amount.v = C27_Base + C27_Fee
        /\ monthly_principal_interest =
               PaymentOf(C27_Base + C27_Fee, annual_interest_rate.v,
                         loan_term_years * 12)
        /\ buydown_loan_amount = C27_Base
        /\ loan_type = "fha" =>
               monthly_mi = Mip(annual_interest_rate.v, C27_Base, mi_rate,
                                loan_term_years)

C27_Witness ==
    /\ pc = "done" /\ ret.kind = "report"
    /\ loan_type = "fha"
    /\ fha_upfront_mip > 0
    /\ loan_amount.v = base_loan_amount + fha_upfront_mip
    /\ buydown_loan_amount = base_loan_amount


(***************************************************************************)
(* C28: for each term, parse_freddie_mac_rates returns the first token     *)
(* ending in "%" that follows the term marker in the first cell holding    *)
(* that marker with a rate; later tokens of the cell and later cells with  *)
(* the marker do not change it, and cells after both rates were found are  *)
(* not read.                                                               *)
(***************************************************************************)
C28_Cells(tds, m) ==
    { i \in 1..Len(tds) :
        \E j \in 1..Len(tds[i]), k \in 1..Len(tds[i]) :
            tds[i][j].marker = m /\ k > j /\ tds[i][k].pct }

C28_FirstRate(tds, m) ==
    IF C28_Cells(tds, m) = {} THEN 700
    ELSE LET i == CHOOSE c \in C28_Cells(tds, m) :
                      \A o \in C28_Cells(tds, m) : c <= o
             j == CHOOSE q \in 1..Len(tds[i]) :
                      /\ tds[i][q].marker = m
                      /\ \A o \in 1..Len(tds[i]) : tds[i][o].marker = m => q <= o
             k == CHOOSE q \in (j + 1)..Len(tds[i]) :
                      /\ tds[i][q].pct
                      /\ \A o \in (j + 1)..Len(tds[i]) : tds[i][o].pct => q <= o
         IN  tds[i][k].rate

C28_FirstRateKept ==
    (applied.f = "parse_freddie_mac_rates" /\ value.ok) =>
        value.v = [r30 |-> C28_FirstRate(applied.tds, "30"),
                   r15 |-> C28_FirstRate(applied.tds, "15")]


(***************************************************************************)
(* C29: a Conventional report whose first-lien LTV, loan amount over home  *)
(* price, is above 80% charges the monthly PMI (loan amount x rate) / 12   *)
(* at the annual rate of the LTV's step: 0.12% up to 85%, 0.21% up to 90%, *)
(* 0.30% up to 95%, 0.43% up to 97%, 0.50% above.                          *)
(***************************************************************************)
C29_Rate ==
    IF ~RatioGt(loan_amount.v, home_price.v, 850) THEN 12
    ELSE IF ~RatioGt(loan_amount.v, home_price.v, 900) THEN 21
    ELSE IF ~RatioGt(loan_amount.v, home_price.v, 950) THEN 30
    ELSE IF ~RatioGt(loan_amount.v, home_price.v, 970) THEN 43
    ELSE 50

C29_ConventionalPmi ==
    (/\ pc = "done" /\ ret.kind = "report"
     /\ loan_type = "conventional"
     /\ RatioGt(loan_amount.v, home_price.v, 800)) =>
        /\ mi_rate = C29_Rate
        /\ monthly_mi = Pmi(loan_amount.v, C29_Rate)


(***************************************************************************)
(* C30: calculate_monthly_premium returns (average balance x annual MIP    *)
(* rate) / 12 to the cent, the average taken over 12 balances: the base    *)
(* loan amount and the 11 balances left at the end of each month when the  *)
(* base loan amount is paid down with its own payment rounded to the cent, *)
(* every interest, principal and balance rounded to the cent; p_i and      *)
(* upfront have no part in it.                                             *)
(***************************************************************************)
C30_Payment(a) ==
    CHOOSE p \in { RoundedPayment(a.orig_mtg, a.interest, a.term_years * 12) } :
        IF a.interest > 0
        THEN /\ AmortizedAtLeast(a.orig_mtg, a.interest, a.term_years * 12, 2, 2 * p - 1)
             /\ AmortizedAtMost(a.orig_mtg, a.interest, a.term_years * 12, 2, 2 * p + 1)
        ELSE /\ 2 * p * a.term_years * 12 - a.term_years * 12 <= 2 * a.orig_mtg
             /\ 2 * a.orig_mtg <= 2 * p * a.term_years * 12 + a.term_years * 12

(* B[k] is the balance at the end of month k; month 0 is the base loan     *)
(* amount                                                                  *)
C30_Balances(a, p) ==
    LET B[k \in 0..11] ==
            IF k = 0 THEN a.orig_mtg
            ELSE LET before == B[k - 1]
                 IN  before - (p - MulDivRound(before, a.interest, 120000))
    IN  [k \in 0..11 |-> B[k]]

C30_Premium(a) ==
    LET p == C30_Payment(a)
        B == IF p < 0 THEN << >> ELSE C30_Balances(a, p)
        average == RoundDiv(0, B[0] + B[1] + B[2] + B[3] + B[4] + B[5] + B[6]
                                   + B[7] + B[8] + B[9] + B[10] + B[11], 12)
    IN  MulDivRound(average, a.mip, 120000)

(* as stated: every call returns the premium on the average balance *)
C30_AverageBalance ==
    applied.f = "calculate_monthly_premium" =>
        /\ ~PaymentRaises(applied.term_years * 12)
        /\ value = Returned(C30_Premium(applied))

(* a term of no months has no payment to pay the loan down with: the       *)
(* premium is then the flat (base loan amount x rate) / 12 to the cent     *)
C30_AverageBalanceOrFlat ==
    applied.f = "calculate_monthly_premium" =>
        IF PaymentRaises(applied.term_years * 12)
        THEN value = Returned(MulDivRound(applied.orig_mtg, applied.mip, 120000))
        ELSE value = Returned(C30_Premium(applied))

C30_Witness ==
    /\ applied.f = "calculate_monthly_premium"
    /\ applied.term_years = 30 /\ applied.interest = 700
    /\ applied.orig_mtg = Dollars(482500) /\ applied.mip = 55
    /\ applied.p_i = Dollars(3000) /\ applied.upfront = 175
    /\ value = Returned(C30_Premium(applied))
    /\ value.v < MulDivRound(applied.orig_mtg, applied.mip, 120000)

=============================================================================
